---- MODULE Spec2Model ----
(***************************************************************************)
(* Notification dispatch services (email, WhatsApp, SMS): the consumer     *)
(* loop of each service, from fetching an inbound Kafka message to the     *)
(* acknowledgment and the offset commit.                                   *)
(*                                                                         *)
(* One behaviour follows ONE service (svc), chosen in Init, over one       *)
(* inbound topic.  The history variable hist keeps, for every message of   *)
(* the topic, the calls the loop made about it to its collaborators        *)
(* (reader, composer, sender, ack writer), their outcomes, and the time    *)
(* (clock) of the first call of each kind.                                 *)
(***************************************************************************)
EXTENDS Integers, Sequences, FiniteSets, TLC

\* ------------------------------------------------------------------ bounds
MaxTopic == 2       \* messages on the inbound topic
MaxCrashes == 1     \* process crashes followed by a restart
MaxRequests == 1    \* requests posted to /send-test
MaxTokens == 3      \* pieces (placeholders, characters) of a template to render

\* --------------------------------------------------------------- constants
Services == {"email", "whatsapp", "sms"}

StatusSuccess == "SUCCESS"
StatusFailure == "FAILURE"
StatusPending == "PENDING"

ErrInvalidNotificationID == "invalid notification ID"
ErrInvalidRecipient == "invalid recipient email address"
ErrMissingContent == "missing email content"
ErrInvalidSubject == "invalid email subject"
ErrInvalidEmailFormat == "invalid email format"
ErrSMTPError == "SMTP server error"
ErrTimeout == "request timeout"

\* Recipients the email regular expression accepts, among those modelled.
WellFormedEmails == {"a@b.co"}

\* Text that is rendered (template body, subject) is a sequence of characters;
\* <<>> is the empty string.
\* A nil map[string]string and a nil map[string]interface{}.
NoParams == [k \in {} |-> <<>>]
NoConfig == [k \in {} |-> <<>>]

\* The zero value of NotificationPayload (what json.Unmarshal leaves when it
\* rejects the input before decoding any field).
ZeroPayload ==
  [notificationId |-> "", to |-> "", templateBody |-> <<>>, params |-> NoParams,
   priority |-> "", channelConfig |-> NoConfig]

\* Inbound message bodies.  json is the shape of the bytes: "ok" decodes,
\* "syntax" is not JSON at all, "type" is JSON with a field of the wrong type.
Body(json, id, to, body) ==
  [json |-> json, notificationId |-> id, to |-> to, templateBody |-> body,
   params |-> NoParams, priority |-> "", channelConfig |-> NoConfig]

Bodies ==
  { Body("syntax", "", "", <<>>),
    Body("type", "n1", "a@b.co", <<"h", "i">>),
    Body("ok", "n1", "a@b.co", <<"h", "i">>),
    Body("ok", "n2", "a@b.co", <<"h", "i">>),
    Body("ok", "n2", "", <<"h", "i">>),
    Body("ok", "n1", "nobody", <<"h", "i">>) }

NoAck == [id |-> "-", status |-> "-", details |-> "-", key |-> "-"]

VARIABLES
  svc,        \* the service this behaviour follows
  topic,      \* the inbound topic: a sequence of message bodies
  pc,         \* position of the consumer loop
  cancelled,  \* the loop's context is done (cancelConsumer was called)
  cancelAt,   \* offset of the message in flight when it was cancelled, else 0
  pos,        \* reader position: offset of the next message to fetch
  committed,  \* consumer-group offset: messages 1..committed are consumed
  m,          \* offset of the message in flight, 0 when none
  payload,    \* the decoded payload of the message in flight
  ack,        \* arguments of the acknowledgment about to be sent
  ret,        \* value returned by the last processMessage / HandleMessage
  inst,       \* number of the running loop instance (restarts so far)
  hist,       \* history: per message, the calls made about it so far
  clock,      \* number of calls recorded in hist
  http,       \* the request handler: the POST /send-test request being served
  call,       \* a library function applied to an input: its name, input, result
  main        \* the entry point of the process: where main() is, the loops it started

vars ==
  <<svc, topic, pc, cancelled, cancelAt, pos, committed, m, payload, ack, ret, inst, hist,
    clock, http, call, main>>

\* ------------------------------------------------------------ pure helpers
\* No library function applied.
NoCall == [fn |-> "none"]

\* main() before it has started anything, and main() once it has started the
\* consumer loop and the HTTP server and waits (started: the number of
\* consumer loops started; signal: a shutdown signal was delivered; closedIn:
\* where the consumer loop stood when NotificationService.Close ran).
Startup == [pc |-> "Startup", started |-> 0, signal |-> FALSE, closedIn |-> "-"]
Serving == [pc |-> "Serving", started |-> 1, signal |-> FALSE, closedIn |-> "-"]

\* The history of a message about which no call was made yet.
NoHist ==
  [fetches |-> 0, fetchAt |-> 0,
   composes |-> 0, composeRes |-> "-",
   sends |-> 0, sendsOk |-> 0, sendRes |-> "-", smtp |-> "-",
   goroutine |-> "-", errChan |-> 0,
   acks |-> 0, ackAt |-> 0, ackRes |-> "-", ack |-> NoAck,
   commits |-> 0, commitAt |-> 0, commitRes |-> "-",
   ret |-> "-"]

\* The history h after one more call about message o, made at time t.
OnFetch(h, o, t) ==
  [h EXCEPT ![o].fetches = @ + 1, ![o].fetchAt = IF h[o].fetches = 0 THEN t ELSE @]
OnCompose(h, o, r) ==
  [h EXCEPT ![o].composes = @ + 1, ![o].composeRes = r]
OnSend(h, o, r) ==
  [h EXCEPT ![o].sends = @ + 1, ![o].sendRes = r,
            ![o].sendsOk = IF r = "ok" THEN @ + 1 ELSE @]
\* The goroutine of SendEmail that runs smtp.SendMail for message o: its
\* result was read by the select ("delivered", "failed"), or the select
\* returned on ctx.Done() and left it running ("inflight"). The goroutine is
\* "Done" once its result went through errChan, and still in "SendMail" when
\* the select left without it.
OnSmtp(h, o, r) ==
  [h EXCEPT ![o].smtp = CASE r = "ok" -> "delivered"
                          [] r = "error" -> "failed"
                          [] OTHER -> "inflight",
            ![o].goroutine = IF r \in {"ok", "error"} THEN "Done" ELSE "SendMail"]
OnAck(h, o, a, r, t) ==
  [h EXCEPT ![o].acks = @ + 1, ![o].ack = a, ![o].ackRes = r,
            ![o].ackAt = IF h[o].acks = 0 THEN t ELSE @]
OnReturn(h, o, r) ==
  [h EXCEPT ![o].ret = r]
OnCommit(h, o, r, t) ==
  [h EXCEPT ![o].commits = @ + 1, ![o].commitRes = r,
            ![o].commitAt = IF h[o].commits = 0 THEN t ELSE @]

\* json.Unmarshal(message.Value, &payload)
Unmarshal(body) ==
  [err |-> body.json # "ok",
   payload |-> IF body.json = "syntax" THEN ZeroPayload
               ELSE [f \in DOMAIN ZeroPayload |-> body[f]]]

\* Variant of IsValid: the content is checked before the recipient.
IsValid_ContentFirst(p) ==
  IF p.notificationId = "" THEN ErrInvalidNotificationID
  ELSE IF p.templateBody = <<>> THEN ErrMissingContent
  ELSE IF p.to = "" THEN ErrInvalidRecipient
  ELSE "nil"

\* email models.NotificationPayload.IsValid
IsValid(p) ==
  IF p.notificationId = "" THEN ErrInvalidNotificationID
  ELSE IF p.to = "" THEN ErrInvalidRecipient
  ELSE IF p.templateBody = <<>> THEN ErrMissingContent
  ELSE "nil"

\* utils.ValidateEmail
ValidateEmail(email) ==
  IF email = "" THEN ErrInvalidRecipient
  ELSE IF email \notin WellFormedEmails THEN ErrInvalidEmailFormat
  ELSE "nil"

\* MessageBuilder.ValidateEmailMessage
ValidateEmailMessage(msg) ==
  IF ValidateEmail(msg.to) # "nil" THEN ValidateEmail(msg.to)
  ELSE IF msg.subject = <<>> THEN ErrInvalidSubject
  ELSE IF msg.body = <<>> THEN ErrMissingContent
  ELSE "nil"

\* ------------------------------------------------- chat (WhatsApp) library
\* Text is a sequence of characters; <<>> is the empty string.
WaErrInvalidNotificationID == "invalid notification ID"
WaErrInvalidRecipient == "invalid recipient"
WaErrMissingContent == "missing message content"
WaErrInvalidTemplate == "invalid template"
WaErrInvalidPhoneNumber == "invalid phone number"

\* strings.ReplaceAll(s, old, new) for a non-empty old: the non-overlapping
\* occurrences of old, found from the left, are replaced by new.
RECURSIVE ReplaceAll(_, _, _)
ReplaceAll(s, old, new) ==
  IF Len(s) < Len(old) THEN s
  ELSE IF SubSeq(s, 1, Len(old)) = old
    THEN new \o ReplaceAll(SubSeq(s, Len(old) + 1, Len(s)), old, new)
    ELSE <<Head(s)>> \o ReplaceAll(Tail(s), old, new)

\* "{" + key + "}"
Placeholder(key) == <<"{">> \o key \o <<"}">>

\* The orders in which `for key, value := range params` may visit the keys
\* (the iteration order of a Go map is unspecified).
RangeOrders(params) ==
  {o \in [1..Cardinality(DOMAIN params) -> DOMAIN params] :
     \A i, j \in DOMAIN o : i # j => o[i] # o[j]}

\* The loop of RenderTemplate over the keys in the order given.
RECURSIVE RenderLoop(_, _, _)
RenderLoop(result, params, order) ==
  IF order = <<>> THEN result
  ELSE RenderLoop(ReplaceAll(result, Placeholder(Head(order)), params[Head(order)]),
                  params, Tail(order))

\* utils.RenderTemplate, the keys visited in the order given.
RenderTemplate(template, params, order) ==
  IF template = <<>> THEN <<>> ELSE RenderLoop(template, params, order)

\* ------------------------------------------------------ the email composer
\* A value of a map[string]interface{} decoded from JSON, with its dynamic type.
JsonString(v) == [type |-> "string", val |-> v]
JsonNumber(v) == [type |-> "number", val |-> v]
JsonObject(v) == [type |-> "object", val |-> v]

\* "Notification"
DefaultSubject == <<"N", "o", "t", "i", "f", "i", "c", "a", "t", "i", "o", "n">>

\* email models.NotificationPayload.GetSubject
GetSubject(p) ==
  IF "subject" \in DOMAIN p.channelConfig /\ p.channelConfig["subject"].type = "string"
    THEN p.channelConfig["subject"].val
    ELSE DefaultSubject

\* Variant of RenderEmailTemplate: the subject is taken as it is.
RenderEmailTemplate_BodyOnly(subject, body, params, orders) ==
  [subject |-> subject,
   body |-> RenderTemplate(body, params, orders[2])]

\* utils.RenderEmailTemplate: two calls of RenderTemplate, each with its own
\* range over the parameter map (orders[1] for the subject, orders[2] for the
\* body).
RenderEmailTemplate(subject, body, params, orders) ==
  [subject |-> RenderTemplate(subject, params, orders[1]),
   body |-> RenderTemplate(body, params, orders[2])]

\* The pairs of range orders of the two calls.
RenderOrders(params) == RangeOrders(params) \X RangeOrders(params)

\* The range orders over a nil parameter map.
NoOrders == <<<<>>, <<>>>>

\* Variant of mapPriorityToHeader: an unknown priority counts as the lowest.
mapPriorityToHeader_UnknownIsLow(priority) ==
  CASE priority = "urgent" -> "1 (Highest)"
    [] priority = "high" -> "2 (High)"
    [] priority = "medium" -> "3 (Normal)"
    [] OTHER -> "4 (Low)"

\* MessageBuilder.mapPriorityToHeader
mapPriorityToHeader(priority) ==
  CASE priority = "urgent" -> "1 (Highest)"
    [] priority = "high" -> "2 (High)"
    [] priority = "medium" -> "3 (Normal)"
    [] priority = "low" -> "4 (Low)"
    [] OTHER -> "3 (Normal)"

\* make(map[string]string)
NoHeaders == [k \in {} |-> ""]

\* The map a after the assignments a[k] = b[k] for every key k of b.
Assign(a, b) ==
  [k \in DOMAIN a \cup DOMAIN b |-> IF k \in DOMAIN b THEN b[k] ELSE a[k]]

\* Variant of CustomHeaders: every entry is copied, whatever its type.
CustomHeaders_AnyType(channelConfig) ==
  IF "headers" \in DOMAIN channelConfig /\ channelConfig["headers"].type = "object"
    THEN LET headers == channelConfig["headers"].val
         IN [k \in DOMAIN headers |-> headers[k].val]
    ELSE NoHeaders

\* The entries of channelConfig["headers"] that BuildEmailMessage copies: the
\* string values of a JSON object.
CustomHeaders(channelConfig) ==
  IF "headers" \in DOMAIN channelConfig /\ channelConfig["headers"].type = "object"
    THEN LET headers == channelConfig["headers"].val
         IN [k \in {k \in DOMAIN headers : headers[k].type = "string"} |-> headers[k].val]
    ELSE NoHeaders

NoEmail == [to |-> "", subject |-> <<>>, body |-> <<>>, headers |-> NoHeaders]

\* MessageBuilder.BuildEmailMessage
BuildEmailMessage(p, orders) ==
  IF IsValid(p) # "nil" THEN [err |-> IsValid(p), msg |-> NoEmail]
  ELSE LET r == RenderEmailTemplate(GetSubject(p), p.templateBody, p.params, orders)
           priority == IF p.priority # ""
                         THEN [k \in {"X-Priority"} |-> mapPriorityToHeader(p.priority)]
                         ELSE NoHeaders
           tracking == IF p.notificationId # ""
                         THEN [k \in {"X-Notification-ID"} |-> p.notificationId]
                         ELSE NoHeaders
       IN [err |-> "nil",
           msg |-> [to |-> p.to, subject |-> r.subject, body |-> r.body,
                    headers |-> Assign(Assign(Assign(NoHeaders, priority), tracking),
                                       CustomHeaders(p.channelConfig))]]

\* Variant of WaIsValid: a request with a template body needs a template name
\* as well.
WaIsValid_BothRequired(p) ==
  IF p.notificationId = "" THEN WaErrInvalidNotificationID
  ELSE IF p.to = <<>> THEN WaErrInvalidRecipient
  ELSE IF p.templateBody = <<>> \/ p.templateName = "" THEN WaErrMissingContent
  ELSE "nil"

\* whatsapp models.NotificationPayload.IsValid
WaIsValid(p) ==
  IF p.notificationId = "" THEN WaErrInvalidNotificationID
  ELSE IF p.to = <<>> THEN WaErrInvalidRecipient
  ELSE IF p.templateBody = <<>> /\ p.templateName = "" THEN WaErrMissingContent
  ELSE "nil"

\* strings.ReplaceAll(s, c, ""): the text s without the character c.
Strip(s, c) == SelectSeq(s, LAMBDA x : x # c)

Digits == {"0", "1", "2", "3", "4", "5", "6", "7", "8", "9"}

\* phoneNumberRegex `^\+[1-9]\d{1,14}$`
PhoneNumberRegexMatches(s) ==
  /\ Len(s) >= 3 /\ Len(s) <= 16
  /\ s[1] = "+"
  /\ s[2] \in Digits \ {"0"}
  /\ \A i \in 3..Len(s) : s[i] \in Digits

\* Variant of CleanPhoneNumber: the cleaned number is returned without the
\* format check.
CleanPhoneNumber_NoValidation(phone) ==
  LET stripped == Strip(Strip(Strip(Strip(Strip(phone, " "), "-"), "("), ")"), ".")
      cleaned == IF stripped # <<>> /\ Head(stripped) = "+" THEN stripped
                 ELSE <<"+">> \o stripped
  IN IF phone = <<>> THEN [err |-> WaErrInvalidPhoneNumber, to |-> <<>>]
     ELSE [err |-> "nil", to |-> cleaned]

\* utils.CleanPhoneNumber
CleanPhoneNumber(phone) ==
  LET stripped == Strip(Strip(Strip(Strip(Strip(phone, " "), "-"), "("), ")"), ".")
      cleaned == IF stripped # <<>> /\ Head(stripped) = "+" THEN stripped
                 ELSE <<"+">> \o stripped
  IN IF phone = <<>> THEN [err |-> WaErrInvalidPhoneNumber, to |-> <<>>]
     ELSE IF ~PhoneNumberRegexMatches(cleaned) THEN [err |-> WaErrInvalidPhoneNumber, to |-> <<>>]
     ELSE [err |-> "nil", to |-> cleaned]

\* A variant field of WhatsAppMessage that is not populated (a nil pointer).
Nil == [nil |-> TRUE]

\* models.WhatsAppMessage with no variant populated.
EmptyMessage ==
  [to |-> <<>>, type |-> "", text |-> Nil, image |-> Nil, document |-> Nil,
   audio |-> Nil, video |-> Nil, template |-> Nil]

\* The params key under which a document's file name is passed.
FilenameKey == <<"f", "i", "l", "e", "n", "a", "m", "e">>

\* utils.GetLanguageCode: "en" for no locale, else the text before the first "_".
RECURSIVE UpTo(_, _)
UpTo(s, c) == IF s = <<>> \/ Head(s) = c THEN <<>> ELSE <<Head(s)>> \o UpTo(Tail(s), c)

GetLanguageCode(locale) ==
  IF locale = <<>> THEN <<"e", "n">> ELSE UpTo(locale, "_")

\* services.MessageBuilder.buildTextMessage
buildTextMessage(to, p, order) ==
  LET body == RenderTemplate(p.templateBody, p.params, order)
  IN IF body = <<>> THEN [err |-> WaErrMissingContent, msg |-> EmptyMessage]
     ELSE [err |-> "nil",
           msg |-> [EmptyMessage EXCEPT !.to = to, !.type = "text",
                                        !.text = [previewUrl |-> TRUE, body |-> body]]]

\* Variant of buildMediaMessage: an unknown media type is kept as the Type of
\* the message while the media lands in Image.
buildMediaMessage_KeepsType(to, p, order) ==
  LET mediaMsg == [link |-> p.mediaUrl,
                   caption |-> RenderTemplate(p.templateBody, p.params, order),
                   filename |-> IF p.mediaType = "document" /\ FilenameKey \in DOMAIN p.params
                                  THEN p.params[FilenameKey] ELSE <<>>]
      message == [EmptyMessage EXCEPT !.to = to, !.type = p.mediaType]
  IN IF p.mediaUrl = "" THEN [err |-> WaErrMissingContent, msg |-> EmptyMessage]
     ELSE [err |-> "nil",
           msg |-> CASE p.mediaType = "image" -> [message EXCEPT !.image = mediaMsg]
                     [] p.mediaType = "document" -> [message EXCEPT !.document = mediaMsg]
                     [] p.mediaType = "audio" -> [message EXCEPT !.audio = mediaMsg]
                     [] p.mediaType = "video" -> [message EXCEPT !.video = mediaMsg]
                     [] OTHER -> [message EXCEPT !.image = mediaMsg]]

\* services.MessageBuilder.buildMediaMessage
buildMediaMessage(to, p, order) ==
  LET mediaMsg == [link |-> p.mediaUrl,
                   caption |-> RenderTemplate(p.templateBody, p.params, order),
                   filename |-> IF p.mediaType = "document" /\ FilenameKey \in DOMAIN p.params
                                  THEN p.params[FilenameKey] ELSE <<>>]
      message == [EmptyMessage EXCEPT !.to = to, !.type = p.mediaType]
  IN IF p.mediaUrl = "" THEN [err |-> WaErrMissingContent, msg |-> EmptyMessage]
     ELSE [err |-> "nil",
           msg |-> CASE p.mediaType = "image" -> [message EXCEPT !.image = mediaMsg]
                     [] p.mediaType = "document" -> [message EXCEPT !.document = mediaMsg]
                     [] p.mediaType = "audio" -> [message EXCEPT !.audio = mediaMsg]
                     [] p.mediaType = "video" -> [message EXCEPT !.video = mediaMsg]
                     [] OTHER -> [message EXCEPT !.type = "image", !.image = mediaMsg]]

\* services.MessageBuilder.buildTemplateMessage
buildTemplateMessage(to, p, order) ==
  IF p.templateName = "" THEN [err |-> WaErrInvalidTemplate, msg |-> EmptyMessage]
  ELSE [err |-> "nil",
        msg |-> [EmptyMessage EXCEPT
                   !.to = to, !.type = "template",
                   !.template = [name |-> p.templateName,
                                 language |-> GetLanguageCode(p.locale),
                                 parameters |-> [i \in DOMAIN order |-> p.params[order[i]]]]]]

\* Variant of BuildMessage: a template name takes precedence over a media URL.
BuildMessage_TemplateFirst(p, to, order) ==
  IF p.templateName # "" THEN buildTemplateMessage(to, p, order)
  ELSE IF p.mediaUrl # "" THEN buildMediaMessage(to, p, order)
  ELSE buildTextMessage(to, p, order)

\* services.MessageBuilder.BuildMessage
BuildMessage(p, to, order) ==
  IF p.mediaUrl # "" THEN buildMediaMessage(to, p, order)
  ELSE IF p.templateName # "" THEN buildTemplateMessage(to, p, order)
  ELSE buildTextMessage(to, p, order)

\* whatsapp.CleanPhoneNumber (package whatsapp): no validation.
WhatsappCleanPhoneNumber(phone) ==
  LET stripped == Strip(Strip(Strip(Strip(phone, " "), "-"), "("), ")")
  IN IF stripped # <<>> /\ Head(stripped) = "+" THEN stripped ELSE <<"+">> \o stripped

\* whatsapp.MessageBuilder.BuildTextMessage
BuildTextMessage(to, body) ==
  [EmptyMessage EXCEPT !.to = WhatsappCleanPhoneNumber(to), !.type = "text",
                       !.text = [previewUrl |-> TRUE, body |-> body]]

\* whatsapp.MessageBuilder.BuildMediaMessage
BuildMediaMessage(to, p, order) ==
  LET message == [EmptyMessage EXCEPT !.to = WhatsappCleanPhoneNumber(to), !.type = p.mediaType]
      mediaMsg == [link |-> p.mediaUrl, caption |-> RenderLoop(p.templateBody, p.params, order),
                   filename |-> <<>>]
  IN CASE p.mediaType = "image" -> [message EXCEPT !.image = mediaMsg]
       [] p.mediaType = "document" ->
            [message EXCEPT !.document =
               [mediaMsg EXCEPT !.filename = IF FilenameKey \in DOMAIN p.params
                                               THEN p.params[FilenameKey] ELSE <<>>]]
       [] p.mediaType = "audio" -> [message EXCEPT !.audio = mediaMsg]
       [] p.mediaType = "video" -> [message EXCEPT !.video = mediaMsg]
       [] OTHER -> [message EXCEPT !.type = "image", !.image = mediaMsg]

\* whatsapp.MessageBuilder.BuildTemplateMessage
BuildTemplateMessage(to, p, order) ==
  [EmptyMessage EXCEPT
     !.to = WhatsappCleanPhoneNumber(to), !.type = "template",
     !.template = [name |-> p.templateName, language |-> GetLanguageCode(p.locale),
                   parameters |-> [i \in DOMAIN order |-> p.params[order[i]]]]]

\* whatsapp.MessageBuilder.BuildFromPayload: never fails.
BuildFromPayload(p, order) ==
  IF p.mediaUrl # "" THEN BuildMediaMessage(p.to, p, order)
  ELSE IF p.templateName # "" THEN BuildTemplateMessage(p.to, p, order)
  ELSE BuildTextMessage(p.to, RenderLoop(p.templateBody, p.params, order))

\* ---------------------------------------------------- POST /send-test
\* Chat (WhatsApp, SMS) request payloads.
ChatPayload(id, to, body, params, name, url, type, locale) ==
  [json |-> "ok", notificationId |-> id, to |-> to, templateBody |-> body,
   params |-> params, templateName |-> name, mediaUrl |-> url, mediaType |-> type,
   locale |-> locale]

\* Bodies of the requests posted to /send-test of a chat service.
ChatRequests ==
  { [ChatPayload("", <<>>, <<>>, NoParams, "", "", "", <<>>) EXCEPT !.json = "syntax"],
    ChatPayload("n1", <<"+", "1", "2">>, <<"h", "i">>, NoParams, "", "", "", <<>>),
    ChatPayload("n1", <<>>, <<"h", "i">>, NoParams, "", "", "", <<>>),
    ChatPayload("n1", <<"x">>, <<"h", "i">>, NoParams, "", "", "", <<>>),
    ChatPayload("n1", <<"+", "1", "2">>, <<>>, NoParams, "", "", "", <<>>),
    ChatPayload("n1", <<"+", "1", "2">>, <<"{", "a", "}">>, [k \in {<<"a">>} |-> <<>>],
                "", "", "", <<>>),
    ChatPayload("n1", <<"+", "1", "2">>, <<>>, NoParams, "welcome", "", "", <<>>),
    ChatPayload("n1", <<"+", "1", "2">>, <<>>, NoParams, "welcome", "http://m", "video", <<>>) }

\* Bodies of the requests posted to /send-test of service s.
Requests(s) == IF s = "email" THEN Bodies ELSE ChatRequests

\* cleanPhoneNumber of the SMS service: no validation.
SmsCleanPhoneNumber(phone) ==
  LET stripped == Strip(Strip(Strip(Strip(phone, " "), "-"), "("), ")")
  IN IF stripped # <<>> /\ Head(stripped) = "+" THEN stripped ELSE <<"+">> \o stripped

\* What the handler of service s does with the decoded payload p before it
\* calls the Sender: the stages run (validate, compose: "-" when not run) and
\* the error it answers with ("nil": the Sender is called next).
SendTestStages(s, p, order) ==
  CASE s = "email" ->
         LET b == BuildEmailMessage(p, order)
             v == ValidateEmailMessage(b.msg)
         IN IF b.err # "nil"
              THEN [validate |-> b.err, compose |-> "-",
                    err |-> "failed to build email message: " \o b.err]
            ELSE IF v # "nil"
              THEN [validate |-> "nil", compose |-> v, err |-> "invalid email message: " \o v]
            ELSE [validate |-> "nil", compose |-> "nil", err |-> "nil"]
    [] s = "whatsapp" ->
         LET v == WaIsValid(p)
             c == CleanPhoneNumber(p.to)
             b == BuildMessage(p, c.to, order)
         IN IF v # "nil"
              THEN [validate |-> v, compose |-> "-",
                    err |-> "invalid notification payload: " \o v]
            ELSE IF c.err # "nil"
              THEN [validate |-> c.err, compose |-> "-", err |-> "invalid phone number: " \o c.err]
            ELSE IF b.err # "nil"
              THEN [validate |-> "nil", compose |-> b.err,
                    err |-> "failed to build message: " \o b.err]
            ELSE [validate |-> "nil", compose |-> "nil", err |-> "nil"]
    [] OTHER -> [validate |-> "-", compose |-> "nil", err |-> "nil"]

\* The handler between two requests, having served n of them.
Served(n) ==
  [pc |-> "Waiting", n |-> n, req |-> ZeroPayload, validate |-> "-", compose |-> "-",
   sends |-> 0, sendRes |-> "-", acks |-> 0, status |-> 0, err |-> "nil"]

Init ==
  /\ svc \in Services
  /\ topic \in [1..MaxTopic -> Bodies]
  /\ pc = IF svc = "sms" THEN "Fetching" ELSE "Idle"
  /\ cancelled = FALSE
  /\ cancelAt = 0
  /\ pos = 1
  /\ committed = 0
  /\ m = 0
  /\ payload = ZeroPayload
  /\ ack = NoAck
  /\ ret = "nil"
  /\ inst = 0
  /\ hist = [o \in 1..MaxTopic |-> NoHist]
  /\ clock = 0
  /\ http = Served(0)
  /\ call = NoCall
  /\ main = Serving

\* ------------------------------------------------------ email consumer loop
\* StartConsumer: select { case <-ctx.Done(): return ctx.Err(); default: ... }
EmailSelect ==
  /\ svc = "email" /\ pc = "Idle"
  /\ IF cancelled
       THEN pc' = "Stopped"
       ELSE pc' = "Fetching"
  /\ UNCHANGED <<main, http, call, svc, topic, cancelled, cancelAt, pos, committed, m, payload, ack, ret, inst, hist, clock>>

\* ks.reader.FetchMessage(ctx) returns the next message of the topic.
EmailFetchOk ==
  /\ svc = "email" /\ pc = "Fetching"
  /\ pos <= Len(topic)
  /\ m' = pos
  /\ pos' = pos + 1
  /\ pc' = "Processing"
  /\ hist' = OnFetch(hist, pos, clock + 1)
  /\ clock' = clock + 1
  /\ UNCHANGED <<main, http, call, svc, topic, cancelled, cancelAt, committed, payload, ack, ret, inst>>

\* ks.reader.FetchMessage(ctx) returns an error (the context is done, or the
\* connection failed): the error is logged and the loop continues.
EmailFetchErr ==
  /\ svc = "email" /\ pc = "Fetching"
  /\ pc' = "Idle"
  /\ UNCHANGED <<main, http, call, svc, topic, cancelled, cancelAt, pos, committed, m, payload, ack, ret, inst, hist, clock>>

\* Variant of EmailProcess: an undecodable message is skipped without an
\* acknowledgment.
EmailProcess_SkipUndecodable ==
  /\ svc = "email" /\ pc = "Processing"
  /\ LET u == Unmarshal(topic[m])
         p == u.payload
         b == BuildEmailMessage(p, NoOrders)
         v == ValidateEmailMessage(b.msg)
         fail(d) == [id |-> p.notificationId, status |-> StatusFailure,
                     details |-> d, key |-> p.notificationId]
     IN /\ payload' = p
        /\ IF u.err
             THEN /\ ack' = NoAck
                  /\ pc' = "Committing"
                  /\ hist' = hist /\ clock' = clock
             ELSE IF b.err # "nil"
               THEN /\ ack' = fail("failed to build email message: " \o b.err)
                    /\ pc' = "Acking"
                    /\ hist' = OnCompose(hist, m, b.err) /\ clock' = clock + 1
               ELSE IF v # "nil"
                 THEN /\ ack' = fail("invalid email message: " \o v)
                      /\ pc' = "Acking"
                      /\ hist' = OnCompose(hist, m, "nil") /\ clock' = clock + 1
                 ELSE /\ ack' = NoAck
                      /\ pc' = "Sending"
                      /\ hist' = OnCompose(hist, m, "nil") /\ clock' = clock + 1
  /\ UNCHANGED <<main, http, call, svc, topic, cancelled, cancelAt, pos, committed, m, ret, inst>>

\* processMessage up to the Sender call: decode, then ProcessNotification's
\* BuildEmailMessage and ValidateEmailMessage.
EmailProcess ==
  /\ svc = "email" /\ pc = "Processing"
  /\ LET u == Unmarshal(topic[m])
         p == u.payload
         b == BuildEmailMessage(p, NoOrders)
         v == ValidateEmailMessage(b.msg)
         fail(d) == [id |-> p.notificationId, status |-> StatusFailure,
                     details |-> d, key |-> p.notificationId]
     IN /\ payload' = p
        /\ IF u.err
             THEN /\ ack' = fail("Invalid JSON payload")
                  /\ pc' = "Acking"
                  /\ hist' = hist /\ clock' = clock
             ELSE IF b.err # "nil"
               THEN /\ ack' = fail("failed to build email message: " \o b.err)
                    /\ pc' = "Acking"
                    /\ hist' = OnCompose(hist, m, b.err) /\ clock' = clock + 1
               ELSE IF v # "nil"
                 THEN /\ ack' = fail("invalid email message: " \o v)
                      /\ pc' = "Acking"
                      /\ hist' = OnCompose(hist, m, "nil") /\ clock' = clock + 1
                 ELSE /\ ack' = NoAck
                      /\ pc' = "Sending"
                      /\ hist' = OnCompose(hist, m, "nil") /\ clock' = clock + 1
  /\ UNCHANGED <<main, http, call, svc, topic, cancelled, cancelAt, pos, committed, m, ret, inst>>

\* Outcomes of EmailClient.SendEmail: the SMTP result, or, once the context
\* is done, the timeout of the select.
SendEmailResults == {"ok", "error"} \cup (IF cancelled THEN {"timeout"} ELSE {})

\* Details of the acknowledgment after a failed SendEmail.
SendEmailDetails(r) ==
  IF r = "timeout" THEN "failed to send email: " \o ErrTimeout \o ": context cancelled"
  ELSE "failed to send email: " \o ErrSMTPError

\* Variant of EmailSendDone: a failed send is tried again.
EmailSendDone_Retry ==
  /\ svc = "email" /\ pc = "Sending"
  /\ \E r \in SendEmailResults :
       /\ hist' = OnSend(hist, m, r) /\ clock' = clock + 1
       /\ ack' = IF r = "ok"
                   THEN [id |-> payload.notificationId, status |-> StatusSuccess,
                         details |-> "Email sent successfully", key |-> payload.notificationId]
                   ELSE NoAck
       /\ pc' = IF r = "ok" THEN "Acking" ELSE "Sending"
  /\ UNCHANGED <<main, http, call, svc, topic, cancelled, cancelAt, pos, committed, m, payload, ret, inst>>

\* Variant of EmailSendDone: the acknowledgment does not carry the request's
\* notification identifier.
EmailSendDone_NoId ==
  /\ svc = "email" /\ pc = "Sending"
  /\ \E r \in SendEmailResults :
       /\ hist' = OnSend(hist, m, r) /\ clock' = clock + 1
       /\ ack' = IF r = "ok"
                   THEN [id |-> "", status |-> StatusSuccess,
                         details |-> "Email sent successfully", key |-> ""]
                   ELSE [id |-> "", status |-> StatusFailure,
                         details |-> SendEmailDetails(r), key |-> ""]
  /\ pc' = "Acking"
  /\ UNCHANGED <<main, http, call, svc, topic, cancelled, cancelAt, pos, committed, m, payload, ret, inst>>

\* Variant of EmailSendDone: a send cut short by the cancellation abandons the
\* message, without acknowledgment and without commit.
EmailSendDone_AbortOnCancel ==
  /\ svc = "email" /\ pc = "Sending"
  /\ \E r \in SendEmailResults :
       /\ hist' = OnSend(hist, m, r) /\ clock' = clock + 1
       /\ IF r = "timeout"
            THEN /\ ack' = NoAck
                 /\ pc' = "Idle"
                 /\ m' = 0
                 /\ payload' = ZeroPayload
            ELSE /\ ack' = IF r = "ok"
                              THEN [id |-> payload.notificationId, status |-> StatusSuccess,
                                    details |-> "Email sent successfully",
                                    key |-> payload.notificationId]
                              ELSE [id |-> payload.notificationId, status |-> StatusFailure,
                                    details |-> SendEmailDetails(r),
                                    key |-> payload.notificationId]
                 /\ pc' = "Acking"
                 /\ m' = m
                 /\ payload' = payload
  /\ UNCHANGED <<main, http, call, svc, topic, cancelled, cancelAt, pos, committed, ret, inst>>

\* Variant of EmailSendDone: a return on ctx.Done() stops the SMTP operation.
EmailSendDone_CancelsSmtp ==
  /\ svc = "email" /\ pc = "Sending"
  /\ \E r \in SendEmailResults :
       /\ hist' = [OnSmtp(OnSend(hist, m, r), m, r) EXCEPT
                     ![m].smtp = IF r = "timeout" THEN "cancelled" ELSE @]
       /\ clock' = clock + 1
       /\ ack' = IF r = "ok"
                   THEN [id |-> payload.notificationId, status |-> StatusSuccess,
                         details |-> "Email sent successfully", key |-> payload.notificationId]
                   ELSE [id |-> payload.notificationId, status |-> StatusFailure,
                         details |-> SendEmailDetails(r), key |-> payload.notificationId]
  /\ pc' = "Acking"
  /\ UNCHANGED <<main, http, call, svc, topic, cancelled, cancelAt, pos, committed, m, payload, ret, inst>>

\* Variant of EmailSendDone: a send given up on the cancelled context is
\* acknowledged as PENDING.
EmailSendDone_PendingOnTimeout ==
  /\ svc = "email" /\ pc = "Sending"
  /\ \E r \in SendEmailResults :
       /\ hist' = OnSmtp(OnSend(hist, m, r), m, r) /\ clock' = clock + 1
       /\ ack' = [id |-> payload.notificationId,
                  status |-> CASE r = "ok" -> StatusSuccess
                               [] r = "timeout" -> StatusPending
                               [] OTHER -> StatusFailure,
                  details |-> IF r = "ok" THEN "Email sent successfully" ELSE SendEmailDetails(r),
                  key |-> payload.notificationId]
  /\ pc' = "Acking"
  /\ UNCHANGED <<main, http, call, svc, topic, cancelled, cancelAt, pos, committed, m, payload, ret, inst>>

\* ProcessNotification's SendEmail call returns; processMessage picks the
\* acknowledgment.
EmailSendDone ==
  /\ svc = "email" /\ pc = "Sending"
  /\ \E r \in SendEmailResults :
       /\ hist' = OnSmtp(OnSend(hist, m, r), m, r) /\ clock' = clock + 1
       /\ ack' = IF r = "ok"
                   THEN [id |-> payload.notificationId, status |-> StatusSuccess,
                         details |-> "Email sent successfully", key |-> payload.notificationId]
                   ELSE [id |-> payload.notificationId, status |-> StatusFailure,
                         details |-> SendEmailDetails(r), key |-> payload.notificationId]
  /\ pc' = "Acking"
  /\ UNCHANGED <<main, http, call, svc, topic, cancelled, cancelAt, pos, committed, m, payload, ret, inst>>

\* Variant of EmailSendAck: when the emission fails the commit is skipped.
EmailSendAck_NoCommitOnError ==
  /\ svc = "email" /\ pc = "Acking"
  /\ \E ok \in BOOLEAN :
       /\ hist' = OnReturn(OnAck(hist, m, ack, IF ok THEN "ok" ELSE "error", clock + 1),
                           m, IF ok THEN "nil" ELSE "write error")
       /\ clock' = clock + 1
       /\ ret' = IF ok THEN "nil" ELSE "write error"
       /\ pc' = IF ok THEN "Committing" ELSE "Idle"
       /\ m' = IF ok THEN m ELSE 0
  /\ UNCHANGED <<main, http, call, svc, topic, cancelled, cancelAt, pos, committed, payload, ack, inst>>

\* Variant of EmailSendAck: the acknowledgment is written under the loop's
\* context, so that once the loop is cancelled the write is given up.
EmailSendAck_LoopContext ==
  /\ svc = "email" /\ pc = "Acking"
  /\ \E r \in (IF cancelled THEN {"ctx"} ELSE {"ok", "error"}) :
       /\ hist' = OnReturn(OnAck(hist, m, ack, r, clock + 1),
                           m, IF r = "ok" THEN "nil" ELSE "write error")
       /\ clock' = clock + 1
       /\ ret' = IF r = "ok" THEN "nil" ELSE "write error"
  /\ pc' = "Committing"
  /\ UNCHANGED <<main, http, call, svc, topic, cancelled, cancelAt, pos, committed, m, payload, ack, inst>>

\* KafkaService.SendAck: writes the acknowledgment under its own 10 s context;
\* its error is what processMessage returns.
EmailSendAck ==
  /\ svc = "email" /\ pc = "Acking"
  /\ \E ok \in BOOLEAN :
       /\ hist' = OnReturn(OnAck(hist, m, ack, IF ok THEN "ok" ELSE "error", clock + 1),
                           m, IF ok THEN "nil" ELSE "write error")
       /\ clock' = clock + 1
       /\ ret' = IF ok THEN "nil" ELSE "write error"
  /\ pc' = "Committing"
  /\ UNCHANGED <<main, http, call, svc, topic, cancelled, cancelAt, pos, committed, m, payload, ack, inst>>

\* Variant of EmailCommit: the commit is handed to the background and the loop
\* goes on without waiting for it.
EmailCommit_Deferred ==
  /\ svc = "email" /\ pc = "Committing"
  /\ pc' = "Idle"
  /\ m' = 0
  /\ payload' = ZeroPayload
  /\ ack' = NoAck
  /\ UNCHANGED <<main, http, call, svc, topic, cancelled, cancelAt, pos, committed, ret, inst, hist, clock>>

\* Outcomes of ks.reader.CommitMessages(ctx, m): committed, rejected by the
\* broker, or, once the context is done, given up with the context's error.
CommitResults == {"ok", "error"} \cup (IF cancelled THEN {"ctx"} ELSE {})

\* ks.reader.CommitMessages(ctx, m); an error is only logged.
EmailCommit ==
  /\ svc = "email" /\ pc = "Committing"
  /\ \E r \in CommitResults :
       /\ hist' = OnCommit(hist, m, r, clock + 1) /\ clock' = clock + 1
       /\ committed' = IF r = "ok" THEN m ELSE committed
  /\ pc' = "Idle"
  /\ m' = 0
  /\ payload' = ZeroPayload
  /\ ack' = NoAck
  /\ UNCHANGED <<main, http, call, svc, topic, cancelled, cancelAt, pos, ret, inst>>

\* --------------------------------------------------- WhatsApp consumer loop
\* Consumer.Start: select { case <-ctx.Done(): return ctx.Err(); default: ... }
WaSelect ==
  /\ svc = "whatsapp" /\ pc = "Idle"
  /\ IF cancelled
       THEN pc' = "Stopped"
       ELSE pc' = "Fetching"
  /\ UNCHANGED <<main, http, call, svc, topic, cancelled, cancelAt, pos, committed, m, payload, ack, ret, inst, hist, clock>>

\* c.reader.ReadMessage(ctx) of a reader with a GroupID: fetches the next
\* message and commits its offset before returning it.
WaReadOk ==
  /\ svc = "whatsapp" /\ pc = "Fetching"
  /\ pos <= Len(topic)
  /\ m' = pos
  /\ pos' = pos + 1
  /\ committed' = pos
  /\ pc' = "Processing"
  /\ hist' = OnCommit(OnFetch(hist, pos, clock + 1), pos, "ok", clock + 2)
  /\ clock' = clock + 2
  /\ UNCHANGED <<main, http, call, svc, topic, cancelled, cancelAt, payload, ack, ret, inst>>

\* c.reader.ReadMessage(ctx) returns an error: logged, the loop continues.
WaReadErr ==
  /\ svc = "whatsapp" /\ pc = "Fetching"
  /\ pc' = "Idle"
  /\ UNCHANGED <<main, http, call, svc, topic, cancelled, cancelAt, pos, committed, m, payload, ack, ret, inst, hist, clock>>

\* Consumer.Start decodes the message; HandleMessage builds the message with
\* BuildFromPayload (which cannot fail) and calls SendMessage.
WaDecode ==
  /\ svc = "whatsapp" /\ pc = "Processing"
  /\ LET u == Unmarshal(topic[m])
     IN IF u.err
          THEN /\ pc' = "Idle"
               /\ m' = 0
               /\ payload' = ZeroPayload
               /\ hist' = hist /\ clock' = clock
          ELSE /\ pc' = "Sending"
               /\ m' = m
               /\ payload' = u.payload
               /\ hist' = OnCompose(hist, m, "nil") /\ clock' = clock + 1
  /\ UNCHANGED <<main, http, call, svc, topic, cancelled, cancelAt, pos, committed, ack, ret, inst>>

\* HandleMessage: s.client.SendMessage(ctx, message) returns.
WaSendDone ==
  /\ svc = "whatsapp" /\ pc = "Sending"
  /\ \E r \in {"ok", "error"} :
       /\ hist' = OnSend(hist, m, r) /\ clock' = clock + 1
       /\ ack' = IF r = "ok"
                   THEN [id |-> payload.notificationId, status |-> StatusSuccess,
                         details |-> "WhatsApp message sent successfully",
                         key |-> payload.notificationId]
                   ELSE [id |-> payload.notificationId, status |-> StatusFailure,
                         details |-> "Failed to send WhatsApp message: request failed",
                         key |-> payload.notificationId]
  /\ pc' = "Acking"
  /\ UNCHANGED <<main, http, call, svc, topic, cancelled, cancelAt, pos, committed, m, payload, ret, inst>>

\* HandleMessage: s.ackProducer.SendAck(ctx, ...) under the loop's context; an
\* emission error is logged, and HandleMessage returns the send error if any.
WaSendAck ==
  /\ svc = "whatsapp" /\ pc = "Acking"
  /\ ret' = IF ack.status = StatusFailure
              THEN "failed to send WhatsApp message: request failed" ELSE "nil"
  /\ \E ok \in BOOLEAN :
       /\ hist' = OnReturn(OnAck(hist, m, ack, IF ok THEN "ok" ELSE "error", clock + 1), m, ret')
       /\ clock' = clock + 1
  /\ pc' = "Idle"
  /\ m' = 0
  /\ payload' = ZeroPayload
  /\ ack' = NoAck
  /\ UNCHANGED <<main, http, call, svc, topic, cancelled, cancelAt, pos, committed, inst>>

\* -------------------------------------------------------- SMS consumer loop
\* consumeSMSTopic: r.ReadMessage(ctx) of a reader with a GroupID, under
\* context.Background(): fetches the next message and commits its offset.
SmsReadOk ==
  /\ svc = "sms" /\ pc = "Fetching"
  /\ pos <= Len(topic)
  /\ m' = pos
  /\ pos' = pos + 1
  /\ committed' = pos
  /\ pc' = "Processing"
  /\ hist' = OnCommit(OnFetch(hist, pos, clock + 1), pos, "ok", clock + 2)
  /\ clock' = clock + 2
  /\ UNCHANGED <<main, http, call, svc, topic, cancelled, cancelAt, payload, ack, ret, inst>>

\* r.ReadMessage(ctx) returns an error: printed, the loop continues.
SmsReadErr ==
  /\ svc = "sms" /\ pc = "Fetching"
  /\ UNCHANGED vars

\* consumeSMSTopic decodes the message; an undecodable one is skipped.
SmsDecode ==
  /\ svc = "sms" /\ pc = "Processing"
  /\ LET u == Unmarshal(topic[m])
     IN IF u.err
          THEN /\ pc' = "Fetching"
               /\ m' = 0
               /\ payload' = ZeroPayload
               /\ hist' = hist /\ clock' = clock
          ELSE /\ pc' = "Sending"
               /\ m' = m
               /\ payload' = u.payload
               /\ hist' = OnCompose(hist, m, "nil") /\ clock' = clock + 1
  /\ UNCHANGED <<main, http, call, svc, topic, cancelled, cancelAt, pos, committed, ack, ret, inst>>

\* handleSMSPayload: sendSMS is a simulation that always returns nil.
SmsSendDone ==
  /\ svc = "sms" /\ pc = "Sending"
  /\ hist' = OnSend(hist, m, "ok") /\ clock' = clock + 1
  /\ ack' = [id |-> payload.notificationId, status |-> StatusSuccess,
             details |-> "SMS sent successfully", key |-> ""]
  /\ pc' = "Acking"
  /\ UNCHANGED <<main, http, call, svc, topic, cancelled, cancelAt, pos, committed, m, payload, ret, inst>>

\* produceAck: writes the acknowledgment without a key; an error is printed.
SmsProduceAck ==
  /\ svc = "sms" /\ pc = "Acking"
  /\ \E ok \in BOOLEAN :
       hist' = OnAck(hist, m, ack, IF ok THEN "ok" ELSE "error", clock + 1) /\ clock' = clock + 1
  /\ pc' = "Fetching"
  /\ m' = 0
  /\ payload' = ZeroPayload
  /\ ack' = NoAck
  /\ UNCHANGED <<main, http, call, svc, topic, cancelled, cancelAt, pos, committed, ret, inst>>

\* ------------------------------------------------- the /send-test handler
\* Variant of SendTestSendDone: the handler acknowledges the outcome on the
\* acknowledgment topic, as the consumer loop does.
SendTestSendDone_WithAck ==
  /\ http.pc = "Sending"
  /\ \E r \in (IF svc = "sms" THEN {"ok"} ELSE {"ok", "error"}) :
       http' = [http EXCEPT !.pc = "Responded", !.sends = @ + 1, !.sendRes = r, !.acks = @ + 1,
                            !.status = IF r = "ok" THEN 200 ELSE 500,
                            !.err = IF r = "ok" THEN "nil" ELSE "send failed"]
  /\ UNCHANGED <<main, call, svc, topic, pc, cancelled, cancelAt, pos, committed, m, payload, ack,
                 ret, inst, hist, clock>>

\* SendTestHandler / handleSendTest: a POST request arrives; its body is
\* decoded and the payload goes through the stages before the Sender.
SendTestReceive ==
  /\ http.pc \in {"Waiting", "Responded"}
  /\ http.n < MaxRequests
  /\ \E req \in Requests(svc) :
       \E order \in (IF svc = "email" THEN RenderOrders(req.params)
                      ELSE RangeOrders(req.params)) :
         LET st == SendTestStages(svc, req, order)
         IN http' =
              IF req.json # "ok"
                THEN [Served(http.n + 1) EXCEPT !.pc = "Responded", !.req = req,
                                                !.status = 400, !.err = "Invalid JSON"]
              ELSE IF st.err # "nil"
                THEN [Served(http.n + 1) EXCEPT !.pc = "Responded", !.req = req,
                                                !.validate = st.validate,
                                                !.compose = st.compose,
                                                !.status = 500, !.err = st.err]
              ELSE [Served(http.n + 1) EXCEPT !.pc = "Sending", !.req = req,
                                              !.validate = st.validate,
                                              !.compose = st.compose]
  /\ UNCHANGED <<main, call, svc, topic, pc, cancelled, cancelAt, pos, committed, m, payload, ack,
                 ret, inst, hist, clock>>

\* The Sender call of the handler returns; the handler answers 200 or 500.
SendTestSendDone ==
  /\ http.pc = "Sending"
  /\ \E r \in (IF svc = "sms" THEN {"ok"} ELSE {"ok", "error"}) :
       http' = [http EXCEPT !.pc = "Responded", !.sends = @ + 1, !.sendRes = r,
                            !.status = IF r = "ok" THEN 200 ELSE 500,
                            !.err = IF r = "ok" THEN "nil" ELSE "send failed"]
  /\ UNCHANGED <<main, call, svc, topic, pc, cancelled, cancelAt, pos, committed, m, payload, ack,
                 ret, inst, hist, clock>>

\* ------------------------------------------------------------- environment
\* main (email cmd/main.go, WhatsApp): waitForShutdown receives SIGINT or
\* SIGTERM and the cleanup calls cancelConsumer().
Cancel ==
  /\ svc \in {"email", "whatsapp"}
  /\ main.pc = "Serving"
  /\ ~cancelled
  /\ cancelled' = TRUE
  /\ cancelAt' = m
  /\ main' = [main EXCEPT !.pc = "Shutdown", !.signal = TRUE]
  /\ UNCHANGED <<http, call, svc, topic, pc, pos, committed, m, payload, ack, ret, inst, hist,
                 clock>>

\* The process dies at any point and its host starts it again: a new loop
\* instance whose reader resumes at the consumer group's committed offset.
CrashRestart ==
  /\ inst < MaxCrashes
  /\ inst' = inst + 1
  /\ pc' = IF svc = "sms" THEN "Fetching" ELSE "Idle"
  /\ cancelled' = FALSE
  /\ cancelAt' = 0
  /\ pos' = committed + 1
  /\ m' = 0
  /\ payload' = ZeroPayload
  /\ ack' = NoAck
  /\ ret' = "nil"
  /\ main' = Serving
  /\ UNCHANGED <<http, call, svc, topic, committed, hist, clock>>

Next ==
  \/ EmailSelect \/ EmailFetchOk \/ EmailFetchErr \/ EmailProcess
  \/ EmailSendDone \/ EmailSendAck \/ EmailCommit
  \/ WaSelect \/ WaReadOk \/ WaReadErr \/ WaDecode \/ WaSendDone \/ WaSendAck
  \/ SmsReadOk \/ SmsReadErr \/ SmsDecode \/ SmsSendDone \/ SmsProduceAck
  \/ Cancel

\* The loops together with crashes of the process.
NextCrash == Next \/ CrashRestart

Spec == Init /\ [][Next]_vars

SpecCrash == Init /\ [][NextCrash]_vars

\* ------------------------------------------- the SMTP goroutine left behind
\* In the goroutine that SendEmail started and no longer waits for,
\* smtp.SendMail returns: the mail is delivered or not, and the goroutine
\* stands at `errChan <- err`.
SmtpCompletes ==
  /\ \E o \in 1..Len(topic) : \E r \in {"delivered", "failed"} :
       /\ hist[o].smtp = "inflight"
       /\ hist' = [hist EXCEPT ![o].smtp = r, ![o].goroutine = "Send"]
  /\ UNCHANGED <<main, http, call, svc, topic, pc, cancelled, cancelAt, pos, committed, m, payload,
                 ack, ret, inst, clock>>

\* errChan := make(chan error, 1)
ErrChanCap == 1

\* Variant of SmtpSendsResult: errChan is unbuffered, so the send needs the
\* select of SendEmail to receive it, and that select has returned.
SmtpSendsResult_Unbuffered ==
  /\ \E o \in 1..Len(topic) :
       /\ hist[o].goroutine = "Send"
       /\ hist[o].errChan < 0
       /\ hist' = [hist EXCEPT ![o].errChan = @ + 1, ![o].goroutine = "Done"]
  /\ UNCHANGED <<main, http, call, svc, topic, pc, cancelled, cancelAt, pos, committed, m, payload,
                 ack, ret, inst, clock>>

\* `errChan <- err` in the goroutine left behind: the result goes into the
\* channel's buffer, where nobody reads it, and the goroutine ends.
SmtpSendsResult ==
  /\ \E o \in 1..Len(topic) :
       /\ hist[o].goroutine = "Send"
       /\ hist[o].errChan < ErrChanCap
       /\ hist' = [hist EXCEPT ![o].errChan = @ + 1, ![o].goroutine = "Done"]
  /\ UNCHANGED <<main, http, call, svc, topic, pc, cancelled, cancelAt, pos, committed, m, payload,
                 ack, ret, inst, clock>>

NextSmtp == Next \/ SmtpCompletes \/ SmtpSendsResult

SpecSmtp == Init /\ [][NextSmtp]_vars

\* The email service alone: its loop, the cancellation and the goroutines
\* that SendEmail leaves behind, on topics of messages that are sent and of
\* messages that are not.
InitEmail ==
  /\ Init
  /\ svc = "email"
  /\ \A o \in 1..MaxTopic :
       topic[o] \in {Body("syntax", "", "", <<>>), Body("ok", "n1", "a@b.co", <<"h", "i">>)}

NextEmail ==
  \/ EmailSelect \/ EmailFetchOk \/ EmailFetchErr \/ EmailProcess
  \/ EmailSendDone \/ EmailSendAck \/ EmailCommit
  \/ Cancel
  \/ SmtpCompletes \/ SmtpSendsResult

\* The Go scheduler runs a goroutine that can take a step.
SpecSmtpLive == InitEmail /\ [][NextEmail]_vars /\ WF_vars(SmtpSendsResult)

\* ------------------------------------------------------- the entry points
\* The programs with a main(): the three services and the main.go at the
\* root of the email service.
EntryPoints == Services \cup {"email/main.go"}

\* main of the email service (cmd/main.go) and of the WhatsApp service:
\* `go func() { StartConsumer(consumerCtx) }()`; main of the SMS service:
\* `go consumeSMSTopic(config)`.  Then main serves HTTP and waits.
MainStartsConsumer ==
  /\ main.pc = "Startup"
  /\ svc \in Services
  /\ main' = [main EXCEPT !.pc = "Serving", !.started = @ + 1]
  /\ pc' = IF svc = "sms" THEN "Fetching" ELSE "Idle"
  /\ UNCHANGED <<svc, topic, cancelled, cancelAt, pos, committed, m, payload, ack, ret, inst,
                 hist, clock, http, call>>

\* main of email-service/main.go: it sends the mock payload and serves the
\* health endpoint; consumeEmailTopic is defined and called nowhere.
MainWithoutConsumer ==
  /\ main.pc = "Startup"
  /\ svc = "email/main.go"
  /\ main' = [main EXCEPT !.pc = "Serving"]
  /\ UNCHANGED <<svc, topic, pc, cancelled, cancelAt, pos, committed, m, payload, ack, ret,
                 inst, hist, clock, http, call>>

\* SIGINT or SIGTERM in a program that installs no handler (SMS service,
\* email-service/main.go): the Go runtime ends the process where it is; the
\* loop's context (context.Background()) is never cancelled.
SignalEndsProcess ==
  /\ main.pc = "Serving"
  /\ svc \in {"sms", "email/main.go"}
  /\ main' = [main EXCEPT !.pc = "Exited", !.signal = TRUE]
  /\ pc' = IF pc = "NotStarted" THEN pc ELSE "Killed"
  /\ UNCHANGED <<svc, topic, cancelled, cancelAt, pos, committed, m, payload, ack, ret, inst,
                 hist, clock, http, call>>

\* main (email cmd/main.go, WhatsApp) after the cleanup of waitForShutdown:
\* main returns, the deferred notificationService.Close() closes the Kafka
\* reader and writer, and the process ends with whatever the consumer
\* goroutine was doing. Nothing waits for StartConsumer to return.
MainClose ==
  /\ main.pc = "Shutdown"
  /\ main' = [main EXCEPT !.pc = "Closed", !.closedIn = pc]
  /\ pc' = IF pc = "Stopped" THEN pc ELSE "Killed"
  /\ UNCHANGED <<svc, topic, cancelled, cancelAt, pos, committed, m, payload, ack, ret, inst,
                 hist, clock, http, call>>

\* The process is started: nothing runs yet.
InitMain ==
  /\ svc \in EntryPoints
  /\ topic \in [1..MaxTopic -> Bodies]
  /\ pc = "NotStarted"
  /\ cancelled = FALSE
  /\ cancelAt = 0
  /\ pos = 1
  /\ committed = 0
  /\ m = 0
  /\ payload = ZeroPayload
  /\ ack = NoAck
  /\ ret = "nil"
  /\ inst = 0
  /\ hist = [o \in 1..MaxTopic |-> NoHist]
  /\ clock = 0
  /\ http = Served(0)
  /\ call = NoCall
  /\ main = Startup

NextMain ==
  Next \/ MainStartsConsumer \/ MainWithoutConsumer \/ SignalEndsProcess \/ MainClose

SpecMain == InitMain /\ [][NextMain]_vars

\* Inbound bodies of the runs that follow the loop next to the handler.
HttpTopicBodies == {b \in Bodies : b.json = "syntax" \/ (b.json = "ok" /\ b.notificationId = "n1" /\ b.to = "a@b.co")}

\* The service with its consumer loop and its request handler both started.
InitHttp ==
  /\ svc \in Services
  /\ topic \in [1..MaxTopic -> HttpTopicBodies]
  /\ pc = IF svc = "sms" THEN "Fetching" ELSE "Idle"
  /\ cancelled = FALSE
  /\ cancelAt = 0
  /\ pos = 1
  /\ committed = 0
  /\ m = 0
  /\ payload = ZeroPayload
  /\ ack = NoAck
  /\ ret = "nil"
  /\ inst = 0
  /\ hist = [o \in 1..MaxTopic |-> NoHist]
  /\ clock = 0
  /\ http = Served(0)
  /\ call = NoCall
  /\ main = Serving

\* The consumer loop and the request handler running concurrently.
NextHttp == Next \/ SendTestReceive \/ SendTestSendDone

SpecHttp == InitHttp /\ [][NextHttp]_vars

\* ------------------------------------------- library functions, applied
\* Payloads the email functions are applied to.
EmailPayloads ==
  { [ZeroPayload EXCEPT !.notificationId = id, !.to = to, !.templateBody = body] :
      id \in {"", "n1"}, to \in {"", "a@b.co", "nobody"}, body \in {<<>>, <<"h", "i">>} }

\* Payloads the chat functions are applied to.
ChatPayloads ==
  { ChatPayload(id, to, body, params, name, url, type, locale) :
      id \in {"", "n1"}, to \in {<<>>, <<"+", "1", "2">>, <<"0", "1">>},
      body \in {<<>>, <<"h", "i">>, <<"{", "a", "}">>},
      params \in {NoParams, [k \in {<<"a">>} |-> <<>>], [k \in {<<"a">>} |-> <<"x">>]},
      name \in {"", "welcome"}, url \in {"", "http://m"},
      type \in {"", "image", "document", "audio", "video", "gif"},
      locale \in {<<>>, <<"e", "n", "_", "U", "S">>} }

\* NotificationService.ProcessNotification of service s (email, whatsapp) on
\* payload p, the Sender answering r: the stages run and the error returned.
ProcessNotification(s, p, order, r) ==
  LET st == SendTestStages(s, p, order)
  IN [validate |-> st.validate, compose |-> st.compose,
      sends |-> IF st.err = "nil" THEN 1 ELSE 0,
      err |-> IF st.err # "nil" THEN st.err
              ELSE IF r = "ok" THEN "nil"
              ELSE IF s = "email" THEN "failed to send email: " \o ErrSMTPError
              ELSE "failed to send WhatsApp message: request failed"]

\* No function applied yet, the services idle.
InitLib ==
  /\ svc = "email"
  /\ topic = [o \in 1..MaxTopic |-> CHOOSE b \in Bodies : b.json = "syntax"]
  /\ pc = "Idle"
  /\ cancelled = FALSE
  /\ cancelAt = 0
  /\ pos = 1
  /\ committed = 0
  /\ m = 0
  /\ payload = ZeroPayload
  /\ ack = NoAck
  /\ ret = "nil"
  /\ inst = 0
  /\ hist = [o \in 1..MaxTopic |-> NoHist]
  /\ clock = 0
  /\ http = Served(0)
  /\ call = NoCall
  /\ main = Serving

\* ProcessNotification is applied to a payload.
CallProcessNotification ==
  /\ call = NoCall
  /\ \E s \in {"email", "whatsapp"} :
       \E p \in (IF s = "email" THEN EmailPayloads ELSE ChatPayloads) :
         \E order \in (IF s = "email" THEN RenderOrders(p.params) ELSE RangeOrders(p.params)) :
           \E r \in {"ok", "error"} :
             call' = [fn |-> "ProcessNotification", s |-> s, in |-> p,
                      out |-> ProcessNotification(s, p, order, r)]
  /\ UNCHANGED <<main, http, svc, topic, pc, cancelled, cancelAt, pos, committed, m, payload, ack,
                 ret, inst, hist, clock>>

\* IsValid is applied to a payload (email or chat).
CallIsValid ==
  /\ call = NoCall
  /\ \E s \in {"email", "whatsapp"} :
       \E p \in (IF s = "email" THEN EmailPayloads ELSE ChatPayloads) :
         call' = [fn |-> "IsValid", s |-> s, in |-> p,
                  out |-> IF s = "email" THEN IsValid(p) ELSE WaIsValid(p)]
  /\ UNCHANGED <<main, http, svc, topic, pc, cancelled, cancelAt, pos, committed, m, payload, ack,
                 ret, inst, hist, clock>>

\* BuildMessage (package services) is applied to a payload and its cleaned
\* recipient.
CallBuildMessage ==
  /\ call = NoCall
  /\ \E p \in ChatPayloads : \E order \in RangeOrders(p.params) :
       call' = [fn |-> "BuildMessage", s |-> "whatsapp", in |-> p,
                out |-> BuildMessage(p, p.to, order)]
  /\ UNCHANGED <<main, http, svc, topic, pc, cancelled, cancelAt, pos, committed, m, payload, ack,
                 ret, inst, hist, clock>>

\* BuildFromPayload (package whatsapp) is applied to a payload.
CallBuildFromPayload ==
  /\ call = NoCall
  /\ \E p \in ChatPayloads : \E order \in RangeOrders(p.params) :
       call' = [fn |-> "BuildFromPayload", s |-> "whatsapp", in |-> p,
                out |-> [err |-> "nil", msg |-> BuildFromPayload(p, order)]]
  /\ UNCHANGED <<main, http, svc, topic, pc, cancelled, cancelAt, pos, committed, m, payload, ack,
                 ret, inst, hist, clock>>

\* The pieces templates are made of: placeholders of the keys a, b and c, a
\* plain character and single braces.
Tokens ==
  { <<"{", "a", "}">>, <<"{", "b", "}">>, <<"{", "c", "}">>, <<"x">>, <<"{">>, <<"}">> }

RECURSIVE Flatten(_)
Flatten(ss) == IF ss = <<>> THEN <<>> ELSE Head(ss) \o Flatten(Tail(ss))

\* Templates of at most MaxTokens pieces.
Templates ==
  { Flatten(ts) : ts \in UNION { [1..n -> Tokens] : n \in 0..MaxTokens } }

\* Parameter values: empty, plain, and ones that contain a placeholder.
ParamValues == { <<>>, <<"1">>, <<"b">>, <<"{", "b", "}">>, <<"{", "a", "}">> }

\* Parameter maps over the keys a and b (c is never a key).
ParamMaps ==
  UNION { [ks -> ParamValues] : ks \in SUBSET {<<"a">>, <<"b">>} }

\* utils.RenderTemplate (email and WhatsApp utils) or the WhatsApp
\* MessageBuilder's renderTemplate is applied to a template and a parameter
\* map, the range loop visiting the keys in some order.
CallRenderTemplate ==
  /\ call = NoCall
  /\ \E t \in Templates : \E params \in ParamMaps : \E order \in RangeOrders(params) :
     \E fn \in {"RenderTemplate", "renderTemplate"} :
       call' = [fn |-> fn, s |-> IF fn = "renderTemplate" THEN "whatsapp" ELSE "email",
                in |-> [template |-> t, params |-> params, order |-> order],
                out |-> IF fn = "renderTemplate" THEN RenderLoop(t, params, order)
                        ELSE RenderTemplate(t, params, order)]
  /\ UNCHANGED <<main, http, svc, topic, pc, cancelled, cancelAt, pos, committed, m, payload, ack,
                 ret, inst, hist, clock>>

\* An entry that the decoded JSON object does not have.
JsonAbsent == [type |-> "absent", val |-> <<>>]

\* channelConfig with the given "subject" and "headers" entries.
ChannelConfig(subject, headers) ==
  [k \in {k \in {"subject", "headers"} :
            \/ (k = "subject" /\ subject.type # "absent")
            \/ (k = "headers" /\ headers.type # "absent")}
     |-> IF k = "subject" THEN subject ELSE headers]

\* channelConfig["subject"]: absent, a string (plain, with a placeholder,
\* empty) or a number.
Subjects ==
  { JsonAbsent, JsonString(<<"S">>), JsonString(<<"{", "a", "}">>), JsonString(<<>>),
    JsonNumber(<<"7">>) }

\* channelConfig["headers"]: absent, an object whose values are strings or
\* not, or not an object.
HeaderObjects ==
  { JsonAbsent,
    JsonObject([k \in {"X-A"} |-> JsonString("v")]),
    JsonObject([k \in {"X-A"} |-> JsonNumber("7")]),
    JsonObject([k \in {"X-A", "X-B"} |-> IF k = "X-A" THEN JsonString("v") ELSE JsonNumber("7")]),
    JsonObject([k \in {"X-Notification-ID"} |-> JsonString("other")]),
    JsonObject([k \in {"X-Priority"} |-> JsonString("9")]),
    JsonString("v") }

\* Priorities of a request: the four levels, none, and an unknown one.
Priorities == {"", "urgent", "high", "medium", "low", "unknown"}

\* Payloads the email composer is applied to.
EmailComposePayloads ==
  { [ZeroPayload EXCEPT !.notificationId = id, !.to = "a@b.co", !.templateBody = body,
                        !.params = params, !.priority = priority,
                        !.channelConfig = ChannelConfig(subject, headers)] :
      id \in {"", "n1"}, body \in {<<"h", "i">>, <<"{", "a", "}">>},
      params \in {NoParams, [k \in {<<"a">>} |-> <<"x">>]},
      priority \in Priorities, subject \in Subjects, headers \in HeaderObjects }

\* MessageBuilder.BuildEmailMessage is applied to a payload.
CallBuildEmailMessage ==
  /\ call = NoCall
  /\ \E p \in EmailComposePayloads : \E orders \in RenderOrders(p.params) :
       call' = [fn |-> "BuildEmailMessage", s |-> "email", in |-> p,
                out |-> BuildEmailMessage(p, orders)]
  /\ UNCHANGED <<main, http, svc, topic, pc, cancelled, cancelAt, pos, committed, m, payload, ack,
                 ret, inst, hist, clock>>

\* Characters of the phone numbers the cleanups are applied to.
PhoneChars == {"+", "0", "1", " ", "-", "(", ")", "."}

\* "(123) 456-7890" and "+1234567890"
PhoneExamples ==
  { <<"(", "1", "2", "3", ")", " ", "4", "5", "6", "-", "7", "8", "9", "0">>,
    <<"+", "1", "2", "3", "4", "5", "6", "7", "8", "9", "0">> }

\* Numbers at the length limit of phoneNumberRegex: 15 digits, and 16; the
\* former also written with separators.
PhoneLimits ==
  { <<"+">> \o [i \in 1..15 |-> "1"],
    <<"+">> \o [i \in 1..16 |-> "1"],
    <<"(">> \o [i \in 1..15 |-> "1"] \o <<")", "."  >> }

\* Phone numbers: the examples and every text of at most MaxTokens
\* characters.
Phones ==
  PhoneExamples \cup PhoneLimits \cup UNION { [1..n -> PhoneChars] : n \in 0..MaxTokens }

\* The three phone cleanups are applied to a phone number.
CallCleanPhoneNumber ==
  /\ call = NoCall
  /\ \E phone \in Phones :
       call' = [fn |-> "CleanPhoneNumber", s |-> "whatsapp", in |-> [phone |-> phone],
                out |-> [utils |-> CleanPhoneNumber(phone),
                         whatsapp |-> WhatsappCleanPhoneNumber(phone),
                         sms |-> SmsCleanPhoneNumber(phone)],
                \* utils.CleanPhoneNumber applied to its own result
                twice |-> CleanPhoneNumber(CleanPhoneNumber(phone).to)]
  /\ UNCHANGED <<main, http, svc, topic, pc, cancelled, cancelAt, pos, committed, m, payload, ack,
                 ret, inst, hist, clock>>

\* Variant of VerifyWebhook: any token is accepted.
VerifyWebhook_AnyToken(configured, verifyToken, challenge) ==
  [err |-> "nil", challenge |-> challenge]

\* WhatsAppClient.VerifyWebhook, configured being config.WebhookVerifyToken.
VerifyWebhook(configured, verifyToken, challenge) ==
  IF verifyToken # configured
    THEN [err |-> "invalid verify token", challenge |-> ""]
    ELSE [err |-> "nil", challenge |-> challenge]

\* HTTPHandlers.handleWebhookVerification: the status and the body of the
\* response to GET /webhook with the query parameters hub.verify_token and
\* hub.challenge (an absent parameter reads as "").
handleWebhookVerification(configured, verifyToken, challenge) ==
  IF verifyToken = "" \/ challenge = ""
    THEN [status |-> 400, body |-> "Missing verification parameters"]
  ELSE LET v == VerifyWebhook(configured, verifyToken, challenge)
       IN IF v.err # "nil" THEN [status |-> 403, body |-> "Verification failed"]
          ELSE [status |-> 200, body |-> v.challenge]

\* Tokens (configured or sent) and challenges.
VerifyTokens == {"", "secret", "guess"}
Challenges == {"", "c1", "c2"}

\* GET /webhook is served.
CallWebhookVerification ==
  /\ call = NoCall
  /\ \E configured \in VerifyTokens : \E verifyToken \in VerifyTokens : \E challenge \in Challenges :
       call' = [fn |-> "handleWebhookVerification", s |-> "whatsapp",
                in |-> [configured |-> configured, verifyToken |-> verifyToken,
                        challenge |-> challenge],
                out |-> handleWebhookVerification(configured, verifyToken, challenge)]
  /\ UNCHANGED <<main, http, svc, topic, pc, cancelled, cancelAt, pos, committed, m, payload, ack,
                 ret, inst, hist, clock>>

\* JSON objects of a request's `params`, as the members are written in the
\* request: distinct keys, in the order the request defines them.
ParamMembers ==
  { <<>>,
    << [key |-> <<"a">>, value |-> <<"x">>] >>,
    << [key |-> <<"a">>, value |-> <<"x">>], [key |-> <<"b">>, value |-> <<"y">>] >>,
    << [key |-> <<"b">>, value |-> <<"y">>], [key |-> <<"a">>, value |-> <<"x">>] >>,
    << [key |-> <<"a">>, value |-> <<"x">>], [key |-> <<"b">>, value |-> <<"x">>] >> }

\* json.Unmarshal of a `params` object into map[string]string: the members
\* by key, their order in the request not kept.
ParamsOf(members) ==
  [k \in {members[i].key : i \in DOMAIN members} |->
     members[CHOOSE i \in DOMAIN members : members[i].key = k].value]

\* Requests for a Template message (and ones without a template name).
TemplatePayloads(members) ==
  { ChatPayload("n1", <<"+", "1", "2">>, <<>>, ParamsOf(members), name, "", "", locale) :
      name \in {"", "welcome"}, locale \in {<<>>, <<"e", "n", "_", "U", "S">>} }

\* The function named fn composing the Template message of payload p, the
\* range loop over p.params visiting the keys in the order given.
ComposeTemplate(fn, p, order) ==
  IF fn = "buildTemplateMessage" THEN buildTemplateMessage(p.to, p, order)
  ELSE [err |-> "nil", msg |-> BuildTemplateMessage(p.to, p, order)]

\* buildTemplateMessage (package services) or BuildTemplateMessage (package
\* whatsapp) is applied to a decoded request.
CallBuildTemplateMessage ==
  /\ call = NoCall
  /\ \E members \in ParamMembers : \E p \in TemplatePayloads(members) :
     \E order \in RangeOrders(p.params) :
     \E fn \in {"buildTemplateMessage", "BuildTemplateMessage"} :
       call' = [fn |-> fn, s |-> "whatsapp", in |-> p, members |-> members,
                out |-> ComposeTemplate(fn, p, order), times |-> 1,
                again |-> ComposeTemplate(fn, p, order)]
  /\ UNCHANGED <<main, http, svc, topic, pc, cancelled, cancelAt, pos, committed, m, payload, ack,
                 ret, inst, hist, clock>>

\* The same function is applied to the same request a second time: a new
\* range loop over the same map, in an order of its own.
CallBuildTemplateMessageAgain ==
  /\ call.fn \in {"buildTemplateMessage", "BuildTemplateMessage"}
  /\ call.times = 1
  /\ \E order \in RangeOrders(call.in.params) :
       call' = [call EXCEPT !.times = 2, !.again = ComposeTemplate(call.fn, call.in, order)]
  /\ UNCHANGED <<main, http, svc, topic, pc, cancelled, cancelAt, pos, committed, m, payload, ack,
                 ret, inst, hist, clock>>

\* start + strings.Index(s[start:], c) as a position of s counted from 1: the
\* first position of the character c at or after start, 0 when there is none.
IndexFrom(s, c, start) ==
  LET at == {i \in start..Len(s) : s[i] = c}
  IN IF at = {} THEN 0 ELSE CHOOSE i \in at : \A j \in at : i <= j

\* The members of the slice missingParams.
Members(seq) == {seq[i] : i \in DOMAIN seq}

\* The loop of ValidateTemplate, the scan standing at position start with the
\* missing parameters found so far.
RECURSIVE ValidateLoop(_, _, _, _)
ValidateLoop(template, params, start, missingParams) ==
  LET startIdx == IndexFrom(template, "{", start)
      endIdx == IndexFrom(template, "}", startIdx)
      param == SubSeq(template, startIdx + 1, endIdx - 1)
  IN IF startIdx = 0 THEN missingParams
     ELSE IF endIdx = 0 THEN missingParams
     ELSE ValidateLoop(template, params, endIdx + 1,
                       IF param \notin DOMAIN params /\ param \notin Members(missingParams)
                         THEN Append(missingParams, param)
                         ELSE missingParams)

\* utils.ValidateTemplate
ValidateTemplate(template, params) == ValidateLoop(template, params, 1, <<>>)

\* Parameter maps by the keys they have (ValidateTemplate reads no value).
KeyMaps == { [k \in ks |-> <<"1">>] : ks \in SUBSET {<<"a">>, <<"b">>} }

\* utils.ValidateTemplate (email and WhatsApp utils) is applied to a template
\* and a parameter map.
CallValidateTemplate ==
  /\ call = NoCall
  /\ \E t \in Templates : \E params \in KeyMaps :
       call' = [fn |-> "ValidateTemplate", s |-> "email",
                in |-> [template |-> t, params |-> params],
                out |-> ValidateTemplate(t, params)]
  /\ UNCHANGED <<main, http, svc, topic, pc, cancelled, cancelAt, pos, committed, m, payload, ack,
                 ret, inst, hist, clock>>

NextLib ==
  \/ CallProcessNotification
  \/ CallIsValid
  \/ CallBuildMessage
  \/ CallBuildFromPayload
  \/ CallRenderTemplate
  \/ CallBuildEmailMessage
  \/ CallCleanPhoneNumber
  \/ CallWebhookVerification
  \/ CallBuildTemplateMessage
  \/ CallBuildTemplateMessageAgain
  \/ CallValidateTemplate

SpecLib == InitLib /\ [][NextLib]_vars

\* ----------------------------------------------------- reading the history
Offsets == 1..Len(topic)

\* Message o was fetched and the loop is past it.
Handled(o) == hist[o].fetches > 0 /\ m # o

\* Every Sender call so far failed / succeeded (the behaviour of a stub).
SenderAlwaysFails == \A o \in Offsets : hist[o].sendsOk = 0
SenderAlwaysSucceeds == \A o \in Offsets : hist[o].sendsOk = hist[o].sends

\* The email pipeline accepts message o up to the Sender call.
EmailAccepts(o) ==
  /\ ~Unmarshal(topic[o]).err
  /\ BuildEmailMessage(Unmarshal(topic[o]).payload, NoOrders).err = "nil"
  /\ ValidateEmailMessage(BuildEmailMessage(Unmarshal(topic[o]).payload, NoOrders).msg) = "nil"

\* ------------------------------------------------------------------ claims
\* C1: email loop, Sender always failing: every message gets exactly one
\* acknowledgment attempt, of status FAILURE, the Sender is called at most once
\* for it, one commit is issued after the acknowledgment, and the reader has
\* moved past the message, which the running loop never fetches again.
C1_OneFailureAckNoRetry ==
  (svc = "email" /\ SenderAlwaysFails) =>
    \A o \in Offsets :
      /\ hist[o].fetches <= 1
      /\ hist[o].sends <= 1
      /\ hist[o].acks <= 1
      /\ hist[o].commits <= 1
      /\ hist[o].acks > 0 => hist[o].ack.status = StatusFailure
      /\ hist[o].commits > 0 => (hist[o].acks > 0 /\ hist[o].ackAt < hist[o].commitAt)
      /\ Handled(o) =>
           /\ hist[o].acks = 1
           /\ hist[o].commits = 1
           /\ pos > o
           /\ pc \in {"Idle", "Fetching", "Stopped"} \/ m > o

C1_Witness ==
  /\ svc = "email" /\ SenderAlwaysFails
  /\ hist[1].sends > 0
  /\ Handled(1)
  /\ hist[2].fetches > 0

\* C2: email loop, Sender always succeeding: every message whose payload
\* decodes and is valid gets exactly one acknowledgment attempt, of status
\* SUCCESS and with the notificationId of the inbound request.
C2_OneSuccessAckEchoesId ==
  (svc = "email" /\ SenderAlwaysSucceeds) =>
    \A o \in Offsets : EmailAccepts(o) =>
      /\ hist[o].acks <= 1
      /\ hist[o].acks > 0 =>
           /\ hist[o].ack.status = StatusSuccess
           /\ hist[o].ack.id = topic[o].notificationId
      /\ Handled(o) => hist[o].acks = 1

C2_Witness ==
  /\ svc = "email" /\ SenderAlwaysSucceeds
  /\ EmailAccepts(1) /\ EmailAccepts(2)
  /\ topic[1].notificationId # topic[2].notificationId
  /\ Handled(1) /\ Handled(2)

\* C3: email loop, undecodable message: exactly one acknowledgment attempt, a
\* FAILURE with details "Invalid JSON payload"; neither the Composer nor the
\* Sender is called for it; its commit is issued; the loop does not stop
\* because of it (it stops on cancellation only) and is back at the select.
C3_MalformedJsonAckedAndSkipped ==
  svc = "email" =>
    /\ pc = "Stopped" => cancelled
    /\ \A o \in Offsets : Unmarshal(topic[o]).err =>
         /\ hist[o].composes = 0 /\ hist[o].sends = 0
         /\ hist[o].acks <= 1
         /\ hist[o].acks > 0 =>
              /\ hist[o].ack.status = StatusFailure
              /\ hist[o].ack.details = "Invalid JSON payload"
         /\ Handled(o) =>
              /\ hist[o].acks = 1
              /\ hist[o].commits = 1
              /\ pc \in {"Idle", "Fetching", "Stopped"} \/ m > o

C3_Witness ==
  /\ svc = "email"
  /\ topic[1].json = "syntax"
  /\ Handled(1)
  /\ hist[2].acks > 0
  /\ ~cancelled

\* C4: WhatsApp and SMS loops: every message read from the inbound topic,
\* undecodable ones included, gets exactly one acknowledgment attempt.
C4_ExactlyOneAckPerMessage ==
  svc \in {"whatsapp", "sms"} =>
    \A o \in Offsets :
      /\ hist[o].acks <= 1
      /\ Handled(o) => hist[o].acks = 1

\* C5: email loop: a commit is issued for a message only after the
\* acknowledgment attempt for it has returned, and it is issued after every
\* such attempt, whether the emission succeeded or failed.
C5_CommitAfterAckAttempt ==
  svc = "email" =>
    /\ pc = "Committing" => hist[m].acks > 0
    /\ \A o \in Offsets :
         /\ hist[o].commits > 0 => (hist[o].acks > 0 /\ hist[o].ackAt < hist[o].commitAt)
         /\ (Handled(o) /\ hist[o].acks > 0) =>
              (hist[o].commits > 0 /\ hist[o].ackAt < hist[o].commitAt)

C5_Witness ==
  /\ svc = "email"
  /\ hist[1].acks > 0 /\ hist[1].ackRes = "error"
  /\ hist[1].commits > 0
  /\ hist[2].acks > 0 /\ hist[2].ackRes = "ok"
  /\ hist[2].commits > 0

\* C6: email loop: once the loop is past a message for which an acknowledgment
\* attempt was made (it is about to fetch again, or has stopped), the message
\* is marked consumed on the inbound topic, also when the cancellation arrived
\* while the message was in flight.  Runs in which the broker rejected the
\* message's commit are left aside.
C6_ConsumedBeforeNextFetchOrStop ==
  svc = "email" =>
    \A o \in Offsets :
      ( /\ Handled(o)
        /\ hist[o].acks > 0
        /\ cancelAt = o
        /\ hist[o].commitRes # "error" ) => committed >= o

\* C7: in every service no message is lost: a decodable message the reader has
\* moved past, and that is not in flight, had an acknowledgment attempt made
\* by some instance of the loop.
C7_NoMessageLost ==
  \A o \in Offsets :
    (o < pos /\ o # m /\ ~Unmarshal(topic[o]).err) => hist[o].acks > 0

\* C8: email loop: a message is fetched only after every message fetched
\* before it had its acknowledgment attempt and its commit attempt; at most
\* one fetched message is without commit attempt, and it is the one in flight.
InFlight == {o \in Offsets : hist[o].fetches > 0 /\ hist[o].commits = 0}

C8_OneMessageInFlight ==
  svc = "email" =>
    /\ InFlight \subseteq {m}
    /\ \A g, f \in Offsets :
         (hist[g].fetches > 0 /\ hist[f].fetches > 0 /\ hist[g].fetchAt < hist[f].fetchAt) =>
           /\ hist[g].acks > 0 /\ hist[g].ackAt < hist[f].fetchAt
           /\ hist[g].commits > 0 /\ hist[g].commitAt < hist[f].fetchAt

C8_Witness ==
  /\ svc = "email"
  /\ hist[1].fetches > 0
  /\ hist[2].fetches > 0
  /\ pc = "Sending"

State(p) == IF p \in {"Processing", "Sending", "Acking"} THEN "Processing" ELSE p

CycleEdges ==
  { <<"Idle", "Fetching">>, <<"Fetching", "Processing">>, <<"Processing", "Committing">>,
    <<"Committing", "Idle">>, <<"Fetching", "Idle">>,
    <<"Idle", "Stopped">>, <<"Fetching", "Stopped">> }

LoopCycleStep ==
  svc \in {"email", "whatsapp"} =>
    /\ State(pc') # State(pc) => <<State(pc), State(pc')>> \in CycleEdges
    /\ pc = "Stopped" => (pc' = pc /\ hist' = hist /\ pos' = pos /\ committed' = committed)

C10_LoopCycle == [][LoopCycleStep]_vars

\* C11: email and WhatsApp loops: when the Sender succeeded, the processing of
\* the message returns no error even if the acknowledgment could not be
\* emitted; when the Sender failed, the processing returns an error.
C11_AckFailureNotEscalated ==
  svc \in {"email", "whatsapp"} =>
    \A o \in Offsets : hist[o].ret # "-" =>
      /\ hist[o].sendsOk > 0 => hist[o].ret = "nil"
      /\ (hist[o].sends > 0 /\ hist[o].sendsOk = 0) => hist[o].ret # "nil"

\* C12: in every service a POST /send-test request, also while the consumer
\* loop is running, emits no acknowledgment and changes nothing of the loop:
\* not the read position, not the committed offset, not the acknowledgments
\* emitted, not the message in flight.
SendTestFrame ==
  http' # http =>
    /\ http'.acks = 0
    /\ UNCHANGED <<main, pc, pos, committed, m, payload, ack, ret, hist, clock, cancelled>>

C12_SendTestTouchesNoQueue == [][SendTestFrame]_vars

C12_Witness ==
  /\ http.pc = "Responded" /\ http.status = 200 /\ http.sends = 1
  /\ hist[1].acks > 0 /\ pc = "Sending"

\* C13: in every service's consumer loop the stages run in the order
\* Validator, Composer, Sender: the Sender is called for a message only if the
\* message decoded, passed validation and was composed without error; a
\* message that fails a stage gets exactly one acknowledgment, a FAILURE, and
\* no Sender call.
C13_SenderOnlyAfterValidateAndCompose ==
  \A o \in Offsets :
    LET u == Unmarshal(topic[o])
    IN /\ hist[o].sends > 0 =>
            /\ ~u.err /\ IsValid(u.payload) = "nil"
            /\ hist[o].composes > 0 /\ hist[o].composeRes = "nil"
       /\ (Handled(o) /\ ~u.err /\ IsValid(u.payload) # "nil") =>
            /\ hist[o].sends = 0
            /\ hist[o].acks = 1 /\ hist[o].ack.status = StatusFailure

\* The recipient / the content of payload p of service s is empty.
EmptyTo(s, p) == IF s = "email" THEN p.to = "" ELSE p.to = <<>>

EmptyContent(s, p) ==
  IF s = "email" THEN p.templateBody = <<>>
  ELSE p.templateBody = <<>> /\ p.templateName = ""

InvalidRecipient(s) == IF s = "email" THEN ErrInvalidRecipient ELSE WaErrInvalidRecipient

MissingContent(s) == IF s = "email" THEN ErrMissingContent ELSE WaErrMissingContent

\* C14: a request whose `to` is empty fails validation with InvalidRecipient:
\* no message is composed for it, the Sender is not called for it, and the
\* consumer loop answers it with one FAILURE acknowledgment.
C14_EmptyToNeverReachesSender ==
  \A o \in Offsets :
    LET u == Unmarshal(topic[o])
    IN (~u.err /\ u.payload.notificationId # "" /\ u.payload.to = "") =>
         /\ hist[o].composeRes # "nil"
         /\ hist[o].sends = 0
         /\ Handled(o) =>
              hist[o].acks = 1 /\ hist[o].ack.status = StatusFailure

\* C15: validate fails fast on the first violated rule in the order
\* identifier, recipient, content, returning InvalidNotificationID,
\* InvalidRecipient or MissingContent; it succeeds iff identifier and recipient
\* are not empty and the content is not empty (email: templateBody; chat:
\* templateBody or templateName).  A chat request with templateBody and
\* templateName both empty never passes, and fails with MissingContent when
\* its identifier and recipient are not empty.
C15_ValidateFailsFastInOrder ==
  call.fn = "IsValid" =>
    LET s == call.s
        p == call.in
    IN /\ call.out \in {"nil", ErrInvalidNotificationID, InvalidRecipient(s), MissingContent(s)}
       /\ call.out = "nil" <=>
            (p.notificationId # "" /\ ~EmptyTo(s, p) /\ ~EmptyContent(s, p))
       /\ p.notificationId = "" => call.out = ErrInvalidNotificationID
       /\ (p.notificationId # "" /\ EmptyTo(s, p)) => call.out = InvalidRecipient(s)
       /\ (p.notificationId # "" /\ ~EmptyTo(s, p) /\ EmptyContent(s, p)) =>
            call.out = MissingContent(s)
       /\ (s = "whatsapp" /\ p.templateBody = <<>> /\ p.templateName = "") =>
            call.out # "nil"

C15_Witness ==
  /\ call.fn = "IsValid" /\ call.s = "whatsapp"
  /\ call.in.notificationId = "n1" /\ call.in.to # <<>>
  /\ call.in.templateBody = <<>> /\ call.in.templateName = ""
  /\ call.out = WaErrMissingContent

\* The variant fields of a chat message that are populated.
VariantFields == {"text", "image", "document", "audio", "video", "template"}

Populated(msg) ==
  {f \in VariantFields :
     CASE f = "text" -> msg.text # Nil
       [] f = "image" -> msg.image # Nil
       [] f = "document" -> msg.document # Nil
       [] f = "audio" -> msg.audio # Nil
       [] f = "video" -> msg.video # Nil
       [] OTHER -> msg.template # Nil}

MediaFields == {"image", "document", "audio", "video"}

\* C16: chat composition picks the variant by the populated fields: a media
\* URL gives the Media variant whatever the template name; otherwise a
\* template name gives the Template variant; otherwise the Text variant (whose
\* composition alone can fail, for lack of content).
C16_VariantByPriority ==
  call.fn \in {"BuildMessage", "BuildFromPayload"} =>
    LET p == call.in
        o == call.out
    IN /\ p.mediaUrl # "" =>
            /\ o.err = "nil"
            /\ Populated(o.msg) # {} /\ Populated(o.msg) \subseteq MediaFields
       /\ (p.mediaUrl = "" /\ p.templateName # "") =>
            /\ o.err = "nil"
            /\ Populated(o.msg) = {"template"}
       /\ (p.mediaUrl = "" /\ p.templateName = "") =>
            /\ o.err \in {"nil", WaErrMissingContent}
            /\ o.err = "nil" => Populated(o.msg) = {"text"}

C16_Witness ==
  /\ call.fn = "BuildMessage"
  /\ call.in.mediaUrl # "" /\ call.in.templateName # "" /\ call.in.mediaType = "video"
  /\ Populated(call.out.msg) = {"video"}

\* The caption of a chat message of the Media variant.
Caption(msg) ==
  CASE msg.image # Nil -> msg.image.caption
    [] msg.document # Nil -> msg.document.caption
    [] msg.audio # Nil -> msg.audio.caption
    [] msg.video # Nil -> msg.video.caption
    [] OTHER -> <<>>

\* C17: composition fails with MissingContent whenever the primary payload of
\* the chosen variant is empty after rendering (Text body, Media caption,
\* email body) and with InvalidTemplate when the Template variant has no
\* name: a message that composition returns, and which is then handed to the
\* Sender, has a non-empty body or caption, or a template name.
C17_NoEmptyPrimaryPayload ==
  /\ call.fn = "BuildMessage" =>
       /\ call.out.err \in {"nil", WaErrMissingContent, WaErrInvalidTemplate}
       /\ call.out.err = "nil" =>
            /\ call.out.msg.text # Nil => call.out.msg.text.body # <<>>
            /\ Populated(call.out.msg) \subseteq MediaFields => Caption(call.out.msg) # <<>>
            /\ call.out.msg.template # Nil => call.out.msg.template.name # ""
  /\ (call.fn = "ProcessNotification" /\ call.s = "email" /\ call.in.templateBody = <<>>) =>
       call.out.sends = 0

\* C18: every chat message the composer produces has exactly one of its
\* variant fields (text, image, document, audio, video, template) populated
\* and its type names that field, also when the payload's mediaType is
\* unknown or empty.
C18_ExactlyOneVariantNamedByType ==
  (call.fn \in {"BuildMessage", "BuildFromPayload"} /\ call.out.err = "nil") =>
    /\ Cardinality(Populated(call.out.msg)) = 1
    /\ Populated(call.out.msg) = {call.out.msg.type}

\* C18 witness: a payload with an unknown media type was composed into an
\* image message.
C18_Witness ==
  /\ call.fn = "BuildMessage" /\ call.out.err = "nil"
  /\ call.in.mediaType \notin MediaFields
  /\ call.in.mediaUrl # ""
  /\ call.out.msg.type = "image" /\ Populated(call.out.msg) = {"image"}

\* A call of one of the two render functions.
Rendered == call.fn \in {"RenderTemplate", "renderTemplate"}

\* s occurs in t.
Contains(t, s) ==
  \E i \in 1..(Len(t) - Len(s) + 1) : SubSeq(t, i, i + Len(s) - 1) = s

\* The text the render contract describes: reading the template once from the
\* left, each {k} with k a key of params gives params[k], every other
\* character is copied.
RECURSIVE Substitute(_, _)
Substitute(t, params) ==
  IF t = <<>> THEN <<>>
  ELSE LET ks == {k \in DOMAIN params :
                    /\ Len(t) >= Len(Placeholder(k))
                    /\ SubSeq(t, 1, Len(Placeholder(k))) = Placeholder(k)}
       IN IF ks # {}
            THEN LET k == CHOOSE k \in ks : TRUE
                 IN params[k] \o Substitute(SubSeq(t, Len(Placeholder(k)) + 1, Len(t)), params)
            ELSE <<Head(t)>> \o Substitute(Tail(t), params)

\* C19: render(T, P) replaces every {k} of T with k a key of P by P[k] and
\* leaves every {k} with k not a key of P unchanged; render(T, {}) = T and
\* render("", P) = "".
C19_RenderReplacesEveryPlaceholder ==
  Rendered =>
    /\ call.out = Substitute(call.in.template, call.in.params)
    /\ DOMAIN call.in.params = {} => call.out = call.in.template
    /\ call.in.template = <<>> => call.out = <<>>

\* C20: render never reads a substituted value again: when the value of a key
\* k whose placeholder is in the template contains the placeholder {j} of
\* another key j of P, {j} appears verbatim in the output.
C20_NoRescanOfSubstitutedValue ==
  Rendered =>
    \A k, j \in DOMAIN call.in.params :
      (/\ k # j
       /\ Contains(call.in.template, Placeholder(k))
       /\ Contains(call.in.params[k], Placeholder(j))) =>
        Contains(call.out, Placeholder(j))

\* C21: SendEmail returns what comes first. A result of the SMTP operation is
\* returned as it is (nil acknowledged SUCCESS, an error FAILURE); the timeout
\* error is returned only when the context is done, it is acknowledged
\* FAILURE, and the SMTP operation stays in flight: nothing stops it.
C21_SendEmailRace ==
  [][(svc = "email" /\ pc = "Sending" /\ pc' = "Acking") =>
       LET r == hist'[m].sendRes
       IN /\ hist'[m].sends = hist[m].sends + 1
          /\ r = "ok" => (hist'[m].smtp = "delivered" /\ ack'.status = StatusSuccess)
          /\ r = "error" => (hist'[m].smtp = "failed" /\ ack'.status = StatusFailure)
          /\ r = "timeout" =>
               /\ cancelled
               /\ hist'[m].smtp = "inflight"
               /\ ack'.status = StatusFailure
               /\ ack'.details = "failed to send email: " \o ErrTimeout \o ": context cancelled"]_vars

\* C21 witness: a FAILURE acknowledgment was written for a send that timed
\* out, and the email was delivered afterwards.
C21_Witness ==
  \E o \in 1..Len(topic) :
    /\ hist[o].sendRes = "timeout"
    /\ hist[o].acks = 1 /\ hist[o].ackRes = "ok" /\ hist[o].ack.status = StatusFailure
    /\ hist[o].smtp = "delivered"

\* C22: every acknowledgment a service publishes has its notification
\* identifier as message key.
C22_AckKeyedByNotificationId ==
  \A o \in 1..Len(topic) :
    hist[o].acks > 0 => hist[o].ack.key = hist[o].ack.id

\* The request p to service s has an identifier, a recipient and content:
\* what validation asks of it.
ValidRequest(s, p) ==
  p.notificationId # "" /\ ~EmptyTo(s, p) /\ ~EmptyContent(s, p)

\* C23: POST /send-test answers each request once: 400 when the body does not
\* decode (nothing is processed), 500 with the error text when validation,
\* composition or sending fails, and 200 only when the request was valid, was
\* composed and the Sender succeeded.
C23_SendTestResponse ==
  http.pc = "Responded" =>
    /\ http.status \in {200, 400, 500}
    /\ http.status = 400 <=> http.req.json # "ok"
    /\ http.status = 400 =>
         (http.validate = "-" /\ http.compose = "-" /\ http.sends = 0)
    /\ http.status = 500 =>
         /\ http.err # "nil"
         /\ \/ http.validate \notin {"nil", "-"}
            \/ http.compose \notin {"nil", "-"}
            \/ http.sendRes = "error"
    /\ http.status = 200 =>
         /\ ValidRequest(svc, http.req)
         /\ http.compose = "nil"
         /\ http.sends = 1 /\ http.sendRes = "ok"

\* C24: a fetch that returns an error while the loop is not cancelled (the
\* connection to the inbound queue is lost) ends the consumer loop:
\* StartConsumer / Start returns and does not iterate again.
C24_FetchErrorTerminatesLoop ==
  [][(/\ svc \in {"email", "whatsapp"}
      /\ pc = "Fetching" /\ pc' \notin {"Fetching", "Processing"}
      /\ ~cancelled)
     => pc' = "Stopped"]_vars

C27_SubjectFromConfigAndRendered ==
  (call.fn = "BuildEmailMessage" /\ call.out.err = "nil") =>
    LET p == call.in
        cc == p.channelConfig
        subject == IF "subject" \in DOMAIN cc /\ cc["subject"].type = "string"
                     THEN cc["subject"].val
                     ELSE <<"N", "o", "t", "i", "f", "i", "c", "a", "t", "i", "o", "n">>
    IN /\ \E o \in RangeOrders(p.params) :
            call.out.msg.subject = RenderTemplate(subject, p.params, o)
       /\ \E o \in RangeOrders(p.params) :
            call.out.msg.body = RenderTemplate(p.templateBody, p.params, o)
       /\ p.params = NoParams =>
            (call.out.msg.subject = subject /\ call.out.msg.body = p.templateBody)

\* C27 witness: subject and body of the request had a placeholder, and the
\* message carries both with the parameter's value in its place.
C27_Witness ==
  /\ call.fn = "BuildEmailMessage" /\ call.out.err = "nil"
  /\ "subject" \in DOMAIN call.in.channelConfig
  /\ call.in.channelConfig["subject"] = JsonString(<<"{", "a", "}">>)
  /\ call.in.templateBody = <<"{", "a", "}">>
  /\ DOMAIN call.in.params = {<<"a">>}
  /\ call.out.msg.subject = <<"x">>
  /\ call.out.msg.body = <<"x">>

\* C28: each phone cleanup of the repository (utils.CleanPhoneNumber,
\* whatsapp.CleanPhoneNumber, cleanPhoneNumber of the SMS service) gives, for
\* every phone number, the number without spaces, dashes, parentheses and
\* dots, with a leading + put in front when there is none; thus all three
\* give the same result.
C28_PhoneCleanupsAgree ==
  call.fn = "CleanPhoneNumber" =>
    LET bare == SelectSeq(call.in.phone, LAMBDA c : c \notin {" ", "-", "(", ")", "."})
        clean == IF bare # <<>> /\ bare[1] = "+" THEN bare ELSE <<"+">> \o bare
    IN /\ call.out.utils = [err |-> "nil", to |-> clean]
       /\ call.out.whatsapp = clean
       /\ call.out.sms = clean

C29_WebhookEchoIffTokenMatches ==
  call.fn = "handleWebhookVerification" =>
    IF call.in.verifyToken = call.in.configured
      THEN call.out = [status |-> 200, body |-> call.in.challenge]
      ELSE call.out.status = 403 /\ call.out.body # call.in.challenge

\* C29, amended: a request that lacks hub.verify_token or hub.challenge is
\* answered 400; otherwise the answer is 200 with the challenge as body if
\* the token equals the configured secret and 403 if it does not.  The
\* challenge is never the body of an answer to a token that does not match,
\* and a 200 is given only to a matching token.
C29_WebhookVerification ==
  call.fn = "handleWebhookVerification" =>
    LET in == call.in
        out == call.out
    IN /\ (in.verifyToken = "" \/ in.challenge = "") => out.status = 400
       /\ (in.verifyToken # "" /\ in.challenge # "") =>
            IF in.verifyToken = in.configured
              THEN out = [status |-> 200, body |-> in.challenge]
              ELSE out.status = 403
       /\ out.status = 200 => in.verifyToken = in.configured
       /\ in.verifyToken # in.configured => out.body # in.challenge

\* C29 witness: a request with a wrong token and a challenge was refused.
C29_Witness ==
  /\ call.fn = "handleWebhookVerification"
  /\ call.in.configured = "secret" /\ call.in.verifyToken = "guess"
  /\ call.in.challenge = "c1"
  /\ call.out.status = 403 /\ call.out.body # "c1"

\* C30: the entry point of each service starts the consumer loop exactly
\* once at startup (never none, never two), the loop stops only when it is
\* cancelled, and a shutdown signal reaches it: the loop's context is
\* cancelled when the signal is delivered.
C30_LoopStartedOnceAndSignalled ==
  /\ main.started <= 1
  /\ main.pc # "Startup" => main.started = 1
  /\ main.started = 0 => pc = "NotStarted"
  /\ pc = "Stopped" => cancelled
  /\ main.signal => cancelled

\* A Template message was composed from a decoded request.
TemplateComposed ==
  /\ call.fn \in {"buildTemplateMessage", "BuildTemplateMessage"}
  /\ call.out.err = "nil"

\* C31: the body parameters of a Template message are the values of the
\* request's `params` in the order in which the request defines them, and a
\* second composition of the same request gives the same parameter sequence.
C31_TemplateParamsInRequestOrder ==
  TemplateComposed =>
    /\ call.out.msg.template.parameters =
         [i \in DOMAIN call.members |-> call.members[i].value]
    /\ call.again.msg.template.parameters = call.out.msg.template.parameters

\* C32: rendering is deterministic: the output for a template and a
\* parameter map is the same whatever order the range loop visits the keys
\* in, also when a value contains the placeholder of another key.
C32_RenderIndependentOfKeyOrder ==
  Rendered =>
    \A order \in RangeOrders(call.in.params) :
      RenderTemplate(call.in.template, call.in.params, order) = call.out

\* C33: in the email loop the acknowledgment emitted for a message has
\* status SUCCESS exactly when the processor returned no error (the message
\* was decoded, composed, validated and its send succeeded) and FAILURE
\* otherwise; no loop emits a PENDING acknowledgment.
C33_AckStatusIffProcessorOk ==
  \A o \in 1..MaxTopic :
    hist[o].acks > 0 =>
      /\ hist[o].ack.status \in {StatusSuccess, StatusFailure}
      /\ svc = "email" =>
           (hist[o].ack.status = StatusSuccess
              <=> (hist[o].composeRes = "nil" /\ hist[o].sendRes = "ok"))

\* Both outcomes happened in the email loop: one message acknowledged SUCCESS
\* after its send, another acknowledged FAILURE after a failed send.
C33_Witness ==
  /\ svc = "email"
  /\ \E o1, o2 \in 1..MaxTopic :
       /\ hist[o1].acks > 0 /\ hist[o1].ack.status = StatusSuccess
       /\ hist[o2].acks > 0 /\ hist[o2].ack.status = StatusFailure
       /\ hist[o2].sendRes = "error"

\* C34: the X-Notification-ID header of every composed email is the
\* request's notificationId, and the X-Priority header of a request with a
\* priority is the mapped priority, whatever channelConfig["headers"] holds:
\* a custom header never replaces either of them.
C34_TrackingHeaderNotReplaced ==
  (call.fn = "BuildEmailMessage" /\ call.out.err = "nil") =>
    LET headers == call.out.msg.headers
    IN /\ "X-Notification-ID" \in DOMAIN headers
       /\ headers["X-Notification-ID"] = call.in.notificationId
       /\ call.in.priority # "" =>
            /\ "X-Priority" \in DOMAIN headers
            /\ headers["X-Priority"] = mapPriorityToHeader(call.in.priority)

\* C35: the goroutine of SendEmail that performs the SMTP call finishes: once
\* smtp.SendMail has returned, its send on errChan goes through, also when
\* SendEmail has already returned on ctx.Done(); no goroutine stays blocked
\* on the channel.
C35_SmtpGoroutineFinishes ==
  \A o \in 1..MaxTopic :
    (hist[o].goroutine = "Send") ~> (hist[o].goroutine = "Done")

\* C35 witness: SendEmail returned the timeout error, and the goroutine it
\* left behind wrote its result into errChan and ended.
C35_Witness ==
  \E o \in 1..MaxTopic :
    /\ hist[o].sendRes = "timeout"
    /\ hist[o].goroutine = "Done"
    /\ hist[o].errChan = 1

\* C36: in the email loop every message whose processing has started gets
\* its acknowledgment emission attempted once processing is over, also when
\* the loop was cancelled meanwhile, and the write is never given up on the
\* loop's cancelled context: it succeeds or fails on its own.
C36_AckAttemptedDespiteCancel ==
  svc = "email" =>
    \A o \in 1..MaxTopic :
      (hist[o].fetches > 0 /\ (m # o \/ pc = "Committing")) =>
        /\ hist[o].acks = 1
        /\ hist[o].ackRes \in {"ok", "error"}

\* C36 witness: the loop was cancelled while a message was in Processing and
\* the acknowledgment of that message was written all the same.
C36_Witness ==
  /\ svc = "email" /\ cancelled
  /\ \E o \in 1..MaxTopic :
       /\ cancelAt = o
       /\ hist[o].ackAt > hist[o].fetchAt
       /\ hist[o].acks = 1 /\ hist[o].ackRes = "ok"
       /\ hist[o].sendRes = "timeout"

\* C37: on graceful shutdown NotificationService.Close never runs while the
\* consumer loop has a message in hand (Processing, Sending, Acking or
\* Committing): when it runs the loop has returned, or at least stands
\* between two messages.
C37_CloseAfterLoopReturned ==
  main.pc = "Closed" => main.closedIn \in {"Stopped", "Idle", "Fetching"}

\* C38: utils.CleanPhoneNumber succeeds exactly on the inputs that, without
\* spaces, dashes, parentheses and dots and with a + put in front when there
\* is none, are a + followed by 2 to 15 digits of which the first is not 0;
\* it then returns that text, and applied to it again returns it unchanged.
\* For every other input it returns ErrInvalidPhoneNumber, and WhatsApp
\* ProcessNotification then calls neither the Composer nor the Sender.
C38_CleanPhoneNumberIdempotent ==
  /\ call.fn = "CleanPhoneNumber" =>
       LET bare == SelectSeq(call.in.phone, LAMBDA c : c \notin {" ", "-", "(", ")", "."})
           clean == IF bare # <<>> /\ bare[1] = "+" THEN bare ELSE <<"+">> \o bare
           digits == Len(clean) - 1
           wellFormed == /\ digits >= 2 /\ digits <= 15
                         /\ clean[1] = "+" /\ clean[2] # "0"
                         /\ \A i \in 2..Len(clean) : clean[i] \in Digits
       IN IF wellFormed
            THEN /\ call.out.utils = [err |-> "nil", to |-> clean]
                 /\ call.twice = call.out.utils
            ELSE /\ call.out.utils = [err |-> WaErrInvalidPhoneNumber, to |-> <<>>]
                 /\ call.twice = call.out.utils
  /\ (/\ call.fn = "ProcessNotification" /\ call.s = "whatsapp"
      /\ CleanPhoneNumber(call.in.to).err # "nil") =>
       /\ call.out.compose = "-"
       /\ call.out.sends = 0
       /\ call.out.err # "nil"

\* C38 witness: a 15-digit number written with separators was cleaned, and
\* cleaning the result again changed nothing.
C38_Witness ==
  /\ call.fn = "CleanPhoneNumber"
  /\ Len(call.in.phone) = 18
  /\ call.out.utils.err = "nil" /\ Len(call.out.utils.to) = 16
  /\ call.twice = call.out.utils

\* The keys of the well-formed placeholders of template t from position i on,
\* in the order they occur: a well-formed placeholder is a "{", a key without
\* braces, and a "}".
RECURSIVE PlaceholderKeys(_, _)
PlaceholderKeys(t, i) ==
  IF i > Len(t) THEN <<>>
  ELSE LET ends == {e \in i + 1..Len(t) :
                      /\ t[e] = "}"
                      /\ \A j \in i + 1..e - 1 : t[j] \notin {"{", "}"}}
       IN IF t[i] = "{" /\ ends # {}
            THEN LET e == CHOOSE e \in ends : TRUE
                 IN <<SubSeq(t, i + 1, e - 1)>> \o PlaceholderKeys(t, e + 1)
            ELSE PlaceholderKeys(t, i + 1)

\* The keys of the sequence keys that are absent from params, each once, in
\* the order of their first occurrence.
RECURSIVE AbsentKeys(_, _, _)
AbsentKeys(keys, params, seen) ==
  IF keys = <<>> THEN <<>>
  ELSE IF Head(keys) \in DOMAIN params \cup seen
    THEN AbsentKeys(Tail(keys), params, seen)
    ELSE <<Head(keys)>> \o AbsentKeys(Tail(keys), params, seen \cup {Head(keys)})

\* C39: ValidateTemplate returns exactly the keys of the well-formed {...}
\* placeholders of the template that are absent from params, each at most
\* once and in the order of first occurrence, and nothing when every
\* placeholder key is present.
C39_MissingParametersExact ==
  call.fn = "ValidateTemplate" =>
    call.out = AbsentKeys(PlaceholderKeys(call.in.template, 1), call.in.params, {})

====
